---- MODULE Spec2Model ----
(***************************************************************************)
(* Model of the market-data core of prime-fix-md-go: the in-memory         *)
(* TradeStore (bounded history buffer plus subscription registry,          *)
(* fixclient/tradestore.go) and the extraction of Trade records from the   *)
(* text of an inbound FIX market-data message (fixclient parser).          *)
(*                                                                         *)
(* Text is modelled as a sequence of one-character strings; the FIX field  *)
(* delimiter SOH (\x01) is written "|".                                    *)
(***************************************************************************)
EXTENDS Integers, Sequences, FiniteSets, TLC

\* ------------------------------------------------------------------------
\* Bounds of the model
\* ------------------------------------------------------------------------
MaxCap == 2
MaxBatch == 2
MaxAppended == 3
MaxMessages == 2
MaxRequests == 3

Symbols == {"BTC-USD", "ETH-USD"}
ReqIds == {"r1", "r2"}
SubTypes == {"1"}

\* The (symbol, request id) pairs inbound data arrives for: the server echoes
\* the request id and the symbol of the request it answers.  A subscription
\* may still be registered under either id for either symbol.
Streams == { [symbol |-> "BTC-USD", reqId |-> "r1"],
             [symbol |-> "ETH-USD", reqId |-> "r2"] }

Min(a, b) == IF a <= b THEN a ELSE b

\* ------------------------------------------------------------------------
\* State
\* ------------------------------------------------------------------------
VARIABLES
    maxSize,        \* TradeStore.maxSize
    trades,         \* TradeStore.trades
    subscriptions,  \* TradeStore.subscriptions: reqId -> Subscription
    updateCount,    \* TradeStore.updateCount
    panicked,       \* a Go runtime panic has ended the process
    lastOp,         \* history variable: the last TradeStore call, its arguments, and
                    \* n: the batch length (AddTrades) or the number of registered
                    \* subscriptions the call's argument matched before the call
    msg,            \* the inbound market-data message handed to the extractor
    extracted,      \* the records extractTradesImproved returned for msg
    scanned,        \* findEntryBoundaries was called for msg
    xpc,            \* position of the extraction: "idle", "received", "extracted"
    mu,             \* TradeStore.mu: the goroutine holding the write lock and the
                    \* goroutines holding the read lock
    wpc,            \* position of each writer goroutine inside AddTrades
    wcall,          \* arguments and locals of each writer's AddTrades call
    rpc,            \* position of each reader goroutine inside GetRecentTrades
    rres,           \* the last result GetRecentTrades returned to each reader
    hist,           \* history variable: per request id, the number of records handed
                    \* to AddTrades calls and the number of records appended
    heap,           \* the Subscription structs allocated: address -> struct
    subPtr,         \* TradeStore.subscriptions as a map of pointers: reqId -> address
    arrays,         \* the backing arrays of Trade slices: array -> elements
    tslice,         \* TradeStore.trades as a slice header: array, offset, length
    ret,            \* the value a getter returned to its caller, as pointers
    retVal,         \* history variable: the contents of ret when it was returned,
                    \* or after the caller's last own change of it
    nextId,         \* the clock reading of the next request, in the request id md_<n>
    lastCmd,        \* history variable: the last command, how it was dispatched, the
                    \* messages it handed to the transport, and the ids of all
                    \* Subscribe requests issued so far
    db,             \* the committed rows of the database
    tx,             \* the rows inserted in the open transaction
    ppc,            \* position of storeTradesToDatabase: "idle", "begun", "done"
    pcall,          \* its arguments and loop index
    plog,           \* history variable: what the call did for the current message
    fcall,          \* a call of extractSingleFieldValue: its arguments, its position
                    \* and the value it returned
    pending,        \* the request sendMarketDataRequestWithOptions is about to hand
                    \* to the transport
    wire,           \* the requests the transport accepted
    removed,        \* history variable: the request ids removed from the registry
    hasDb,          \* FixApp.DB is not nil
    inb             \* history variable: the kind of the last inbound message handled
                    \* (for a reject its request id), the number of data messages,
                    \* the outcome of the last storeTradesToDatabase and what FromApp
                    \* returned

storeVars == <<maxSize, trades, subscriptions, updateCount, panicked, lastOp>>
extractVars == <<msg, extracted, scanned, xpc>>
concVars == <<mu, wpc, wcall, rpc, rres, hist>>
heapVars == <<heap, subPtr, arrays, tslice, ret, retVal>>
appVars == <<nextId, lastCmd>>
dbVars == <<db, tx, ppc, pcall, plog>>
fieldVars == <<fcall>>
inVars == <<pending, wire, removed, hasDb, inb>>
vars == <<maxSize, trades, subscriptions, updateCount, panicked, lastOp,
          msg, extracted, scanned, xpc, mu, wpc, wcall, rpc, rres, hist,
          heap, subPtr, arrays, tslice, ret, retVal, nextId, lastCmd,
          db, tx, ppc, pcall, plog, fcall, pending, wire, removed, hasDb, inb>>

\* Records a caller may hand to AddTrades.  Symbol, MdReqId and the two flags
\* are whatever the caller left in them; AddTrades overwrites them.
InputTrades ==
    { [Symbol |-> "XRP-USD", MdReqId |-> "stale", IsSnapshot |-> TRUE,
       IsUpdate |-> TRUE, SeqNum |-> "1", EntryType |-> <<"2">>, Price |-> <<"5">>,
       Size |-> <<"3">>, Time |-> <<>>, Position |-> <<>>,
       Aggressor |-> <<"B", "u", "y">>, Ord |-> 0] }

RECURSIVE SeqsUpTo(_, _)
SeqsUpTo(S, n) ==
    IF n = 0 THEN { <<>> }
    ELSE LET shorter == SeqsUpTo(S, n - 1)
         IN  shorter \cup { Append(s, x) : s \in { t \in shorter : Len(t) = n - 1 }, x \in S }

Batches == SeqsUpTo(InputTrades, MaxBatch)

NewSubscription(symbol, subscriptionType, mdReqId) ==
    [Symbol |-> symbol, SubscriptionType |-> subscriptionType, MdReqId |-> mdReqId,
     Active |-> TRUE, TotalUpdates |-> 0, SnapshotReceived |-> FALSE]

NoMsg == [msgType |-> "", symbol |-> "", mdReqId |-> "", seqNum |-> "",
          noMdEntries |-> <<>>, fields |-> <<>>]

NoOp == [op |-> "none", symbol |-> "", reqId |-> "", n |-> 0]

\* The goroutines calling into one TradeStore concurrently.
Writers == {"w1", "w2"}
Readers == {"g1"}

NoCall == [symbol |-> "", batch |-> <<>>, isSnapshot |-> FALSE, mdReqId |-> "",
           i |-> 0, cur |-> <<>>, cnt |-> 0]

\* The zero value of Trade, in the unused slots of a backing array.
ZeroTrade ==
    [Symbol |-> "", MdReqId |-> "", IsSnapshot |-> FALSE, IsUpdate |-> FALSE,
     SeqNum |-> "", EntryType |-> <<>>, Price |-> <<>>, Size |-> <<>>, Time |-> <<>>,
     Position |-> <<>>, Aggressor |-> <<>>, Ord |-> 0]

NoRet == [kind |-> "none"]

\* make([]Trade, 0) and make(map[string]*Subscription): nothing allocated,
\* nothing returned to a caller.
HeapIdle ==
    /\ heap = <<>>
    /\ subPtr = <<>>
    /\ arrays = [a \in { [site |-> "store", key |-> "trades", gen |-> 0] } |-> <<>>]
    /\ tslice = [arr |-> [site |-> "store", key |-> "trades", gen |-> 0],
                 off |-> 0, len |-> 0]
    /\ ret = NoRet
    /\ retVal = <<>>

NoCmd == [cmd |-> "none", kind |-> "none", arg |-> <<>>, subType |-> "",
          parts |-> <<>>, sends |-> {}, issued |-> {}]

\* No command has been entered.
AppIdle ==
    /\ nextId = 1
    /\ lastCmd = NoCmd

NoPersist == [batch |-> <<>>, i |-> 0]
NoLog == [msgs |-> 0, begins |-> 0, attempted |-> <<>>, outcome |-> "none",
          before |-> <<>>]

\* An empty database, no transaction open.
DbIdle ==
    /\ db = <<>>
    /\ tx = <<>>
    /\ ppc = "idle"
    /\ pcall = NoPersist
    /\ plog = NoLog

NoFieldCall == [pc |-> "idle", segment |-> <<>>, tagPrefix |-> <<>>, value |-> <<>>]

\* extractSingleFieldValue has not been called.
FieldIdle == fcall = NoFieldCall

NoReq == [reqId |-> "", symbol |-> "", subType |-> "", pc |-> 0]
NoInbound == [kind |-> "none", rejected |-> "", ret |-> "none", msgs |-> 0,
              outcome |-> "none"]

\* No request is being sent, none was sent, no inbound message was handled.
InIdle ==
    /\ pending = NoReq
    /\ wire = {}
    /\ removed = {}
    /\ hasDb = TRUE
    /\ inb = NoInbound

\* No goroutine is inside the store.
ConcIdle ==
    /\ mu = [writer |-> "none", readers |-> {}]
    /\ wpc = [w \in Writers |-> "idle"]
    /\ wcall = [w \in Writers |-> NoCall]
    /\ rpc = [g \in Readers |-> "idle"]
    /\ rres = [g \in Readers |-> <<>>]
    /\ hist = [submitted |-> [r \in ReqIds |-> 0], appended |-> [r \in ReqIds |-> 0]]

\* NewTradeStore(maxSize, _)
Init ==
    /\ maxSize \in 0..MaxCap
    /\ trades = <<>>
    /\ subscriptions = <<>>
    /\ updateCount = 0
    /\ panicked = FALSE
    /\ lastOp = NoOp
    /\ msg = NoMsg
    /\ extracted = <<>>
    /\ scanned = FALSE
    /\ xpc = "idle"
    /\ ConcIdle
    /\ HeapIdle
    /\ AppIdle
    /\ DbIdle
    /\ FieldIdle
    /\ InIdle

\* ------------------------------------------------------------------------
\* TradeStore.AddTrades
\* ------------------------------------------------------------------------

\* AddTradesSubs assigning the flag of the batch to SnapshotReceived (no latch).
AddTradesSubsNoLatch(subs, n, isSnapshot, mdReqId) ==
    IF mdReqId \in DOMAIN subs
    THEN [subs EXCEPT ![mdReqId].TotalUpdates = @ + n,
                      ![mdReqId].SnapshotReceived = isSnapshot]
    ELSE subs

\* AddTradesSubs registering a subscription for a request id that has none.
AddTradesSubsRecreate(subs, n, isSnapshot, mdReqId) ==
    [r \in DOMAIN subs \cup {mdReqId} |->
        IF r \in DOMAIN subs
        THEN IF r = mdReqId
             THEN [subs[r] EXCEPT !.TotalUpdates = @ + n,
                                  !.SnapshotReceived = @ \/ isSnapshot]
             ELSE subs[r]
        ELSE [NewSubscription("", "1", mdReqId) EXCEPT !.TotalUpdates = n,
                                                       !.SnapshotReceived = isSnapshot]]

\* AddTradesSubs counting one update per call instead of one per record.
AddTradesSubsPerCall(subs, n, isSnapshot, mdReqId) ==
    IF mdReqId \in DOMAIN subs
    THEN [subs EXCEPT ![mdReqId].TotalUpdates = @ + 1,
                      ![mdReqId].SnapshotReceived = @ \/ isSnapshot]
    ELSE subs

\* Lines 70-76: the activity counters of the subscription registered under
\* mdReqId, if there is one.
AddTradesSubs(subs, n, isSnapshot, mdReqId) ==
    IF mdReqId \in DOMAIN subs
    THEN [subs EXCEPT ![mdReqId].TotalUpdates = @ + n,
                      ![mdReqId].SnapshotReceived = @ \/ isSnapshot]
    ELSE subs

\* StampTrade leaving the symbol of the input record in place.
StampTradeKeepSymbol(trade, symbol, isSnapshot, mdReqId, ord) ==
    [trade EXCEPT !.MdReqId = mdReqId,
                  !.IsSnapshot = isSnapshot, !.IsUpdate = ~isSnapshot,
                  !.Ord = ord]

\* Lines 79-83: the stamping of one record.  Ord stands for the position of
\* the record in the order of all appends (a history field).
StampTrade(trade, symbol, isSnapshot, mdReqId, ord) ==
    [trade EXCEPT !.Symbol = symbol, !.MdReqId = mdReqId,
                  !.IsSnapshot = isSnapshot, !.IsUpdate = ~isSnapshot,
                  !.Ord = ord]

\* AppendLoop evicting the newest record (ts.trades[:len-1]) instead of the
\* oldest.
RECURSIVE AppendLoopEvictNewest(_, _, _, _, _, _, _)
AppendLoopEvictNewest(st, cap, batch, i, symbol, isSnapshot, mdReqId) ==
    IF i > Len(batch) THEN st
    ELSE LET trade == [batch[i] EXCEPT !.Symbol = symbol, !.MdReqId = mdReqId,
                                       !.IsSnapshot = isSnapshot,
                                       !.IsUpdate = ~isSnapshot,
                                       !.Ord = st.updateCount + 1]
         IN  IF Len(st.trades) >= cap /\ Len(st.trades) = 0
             THEN [st EXCEPT !.panicked = TRUE]
             ELSE LET kept == IF Len(st.trades) >= cap
                              THEN SubSeq(st.trades, 1, Len(st.trades) - 1)
                              ELSE st.trades
                  IN  AppendLoopEvictNewest([trades |-> Append(kept, trade),
                                             updateCount |-> st.updateCount + 1,
                                             panicked |-> FALSE],
                                            cap, batch, i + 1, symbol, isSnapshot, mdReqId)

\* Lines 78-90: the append loop from index i of the batch on.  st is
\* [trades, updateCount, panicked].  ts.trades[1:] on an empty slice is a
\* slice-bounds panic, which ends the loop.
RECURSIVE AppendLoop(_, _, _, _, _, _, _)
AppendLoop(st, cap, batch, i, symbol, isSnapshot, mdReqId) ==
    IF i > Len(batch) THEN st
    ELSE LET trade == StampTrade(batch[i], symbol, isSnapshot, mdReqId, st.updateCount + 1)
         IN  IF Len(st.trades) >= cap /\ Len(st.trades) = 0
             THEN [st EXCEPT !.panicked = TRUE]
             ELSE LET kept == IF Len(st.trades) >= cap THEN Tail(st.trades) ELSE st.trades
                  IN  AppendLoop([trades |-> Append(kept, trade),
                                  updateCount |-> st.updateCount + 1,
                                  panicked |-> FALSE],
                                 cap, batch, i + 1, symbol, isSnapshot, mdReqId)

AddTrades(symbol, batch, isSnapshot, mdReqId) ==
    /\ ~panicked
    /\ updateCount + Len(batch) <= MaxAppended
    /\ LET st == AppendLoop([trades |-> trades, updateCount |-> updateCount,
                             panicked |-> FALSE],
                            maxSize, batch, 1, symbol, isSnapshot, mdReqId)
       IN  /\ trades' = st.trades
           /\ updateCount' = st.updateCount
           /\ panicked' = st.panicked
    /\ subscriptions' = AddTradesSubs(subscriptions, Len(batch), isSnapshot, mdReqId)
    /\ lastOp' = [op |-> "AddTrades", symbol |-> symbol, reqId |-> mdReqId,
                  n |-> Len(batch)]
    /\ UNCHANGED <<maxSize, extractVars, fieldVars, inVars, concVars, heapVars, appVars, dbVars>>

\* ------------------------------------------------------------------------
\* TradeStore.GetRecentTrades, GetAllTrades
\* ------------------------------------------------------------------------

\* RecentLoop appending each match instead of prepending it.
RECURSIVE RecentLoopNewestFirst(_, _, _, _, _, _)
RecentLoopNewestFirst(buf, symbol, limit, i, recent, count) ==
    IF ~(i >= 1 /\ count < limit) THEN recent
    ELSE IF buf[i].Symbol = symbol
         THEN RecentLoopNewestFirst(buf, symbol, limit, i - 1, Append(recent, buf[i]), count + 1)
         ELSE RecentLoopNewestFirst(buf, symbol, limit, i - 1, recent, count)

\* The loop of GetRecentTrades from index i downwards; recent is the result
\* so far, count the number of records collected.
RECURSIVE RecentLoop(_, _, _, _, _, _)
RecentLoop(buf, symbol, limit, i, recent, count) ==
    IF ~(i >= 1 /\ count < limit) THEN recent
    ELSE IF buf[i].Symbol = symbol
         THEN RecentLoop(buf, symbol, limit, i - 1, <<buf[i]>> \o recent, count + 1)
         ELSE RecentLoop(buf, symbol, limit, i - 1, recent, count)

GetRecentTrades(buf, symbol, limit) ==
    RecentLoop(buf, symbol, limit, Len(buf), <<>>, 0)

GetAllTrades(buf) == [i \in 1..Len(buf) |-> buf[i]]

\* ------------------------------------------------------------------------
\* Subscription registry
\* ------------------------------------------------------------------------
AddSubscriptionOp(subs, symbol, subscriptionType, mdReqId) ==
    [r \in DOMAIN subs \cup {mdReqId} |->
        IF r = mdReqId THEN NewSubscription(symbol, subscriptionType, mdReqId)
        ELSE subs[r]]

\* RemoveSubscription comparing the argument with the request id.
RemoveSubscriptionOpByIdField(subs, symbol) ==
    [r \in { q \in DOMAIN subs : subs[q].MdReqId # symbol } |-> subs[r]]

RemoveSubscriptionOp(subs, symbol) ==
    [r \in { q \in DOMAIN subs : subs[q].Symbol # symbol } |-> subs[r]]

\* RemoveSubscriptionByReqId removing every subscription of the symbol of the
\* subscription found.
RemoveSubscriptionByReqIdOpSymbol(subs, reqId) ==
    IF reqId \in DOMAIN subs
    THEN [r \in { q \in DOMAIN subs : subs[q].Symbol # subs[reqId].Symbol } |-> subs[r]]
    ELSE subs

RemoveSubscriptionByReqIdOp(subs, reqId) ==
    IF reqId \in DOMAIN subs
    THEN [r \in DOMAIN subs \ {reqId} |-> subs[r]]
    ELSE subs

AddSubscription(symbol, subscriptionType, mdReqId) ==
    /\ ~panicked
    /\ subscriptions' = AddSubscriptionOp(subscriptions, symbol, subscriptionType, mdReqId)
    /\ lastOp' = [op |-> "AddSubscription", symbol |-> symbol, reqId |-> mdReqId,
                  n |-> Cardinality(DOMAIN subscriptions \cap {mdReqId})]
    /\ UNCHANGED <<maxSize, trades, updateCount, panicked, extractVars, fieldVars, inVars, concVars,
                   heapVars, appVars, dbVars>>

RemoveSubscription(symbol) ==
    /\ ~panicked
    /\ subscriptions' = RemoveSubscriptionOp(subscriptions, symbol)
    /\ lastOp' = [op |-> "RemoveSubscription", symbol |-> symbol, reqId |-> "",
                  n |-> Cardinality({ r \in DOMAIN subscriptions :
                                        subscriptions[r].Symbol = symbol })]
    /\ UNCHANGED <<maxSize, trades, updateCount, panicked, extractVars, fieldVars, inVars, concVars,
                   heapVars, appVars, dbVars>>

RemoveSubscriptionByReqId(reqId) ==
    /\ ~panicked
    /\ subscriptions' = RemoveSubscriptionByReqIdOp(subscriptions, reqId)
    /\ lastOp' = [op |-> "RemoveSubscriptionByReqId", symbol |-> "", reqId |-> reqId,
                  n |-> Cardinality(DOMAIN subscriptions \cap {reqId})]
    /\ UNCHANGED <<maxSize, trades, updateCount, panicked, extractVars, fieldVars, inVars, concVars,
                   heapVars, appVars, dbVars>>

\* ------------------------------------------------------------------------
\* Text of an inbound message
\* ------------------------------------------------------------------------
MaxFields == 3

SOH == "|"
Marker == <<"2", "6", "9", "=">>

\* The body fields, after the declared count, an inbound message may carry:
\* the market-data entry fields (269 kind, 270 price, 271 size, 290 position,
\* 2446 aggressor), two fields whose tag ends with the digits of an entry
\* tag, and a text field whose value contains the characters "269=".
FieldSet ==
    { [tag |-> <<"2", "6", "9">>, val |-> <<"0">>],
      [tag |-> <<"2", "6", "9">>, val |-> <<"1">>],
      [tag |-> <<"2", "6", "9">>, val |-> <<"2">>],
      [tag |-> <<"2", "6", "9">>, val |-> <<"Z">>],
      [tag |-> <<"2", "7", "0">>, val |-> <<"5">>],
      [tag |-> <<"2", "7", "1">>, val |-> <<"3">>],
      [tag |-> <<"2", "9", "0">>, val |-> <<"7">>],
      [tag |-> <<"2", "4", "4", "6">>, val |-> <<"1">>],
      [tag |-> <<"2", "4", "4", "6">>, val |-> <<"2">>],
      [tag |-> <<"2", "4", "4", "6">>, val |-> <<"9">>],
      [tag |-> <<"1", "2", "9", "0">>, val |-> <<"4">>],
      [tag |-> <<"1", "2", "6", "9">>, val |-> <<"1">>],
      [tag |-> <<"5", "8">>, val |-> <<"2", "6", "9", "=", "2">>] }

\* GetString(msg, 268): the empty text when the field is absent.
DeclaredCounts == { <<>>, <<"0">>, <<"2">> }

Messages ==
    [ msgType : {"W", "X"}, symbol : Symbols, mdReqId : {"r1"}, seqNum : {"7"},
      noMdEntries : DeclaredCounts, fields : SeqsUpTo(FieldSet, MaxFields) ]

FieldText(f) == f.tag \o <<"=">> \o f.val \o <<SOH>>

RECURSIVE FieldsText(_)
FieldsText(fs) == IF fs = <<>> THEN <<>> ELSE FieldText(Head(fs)) \o FieldsText(Tail(fs))

\* msg.String(): the wire text, header, declared count, body fields, trailer.
RawText(m) ==
    <<"3", "5", "=", m.msgType, SOH>>
    \o (IF m.noMdEntries = <<>> THEN <<>>
        ELSE <<"2", "6", "8", "=">> \o m.noMdEntries \o <<SOH>>)
    \o FieldsText(m.fields)
    \o <<"1", "0", "=", "0", SOH>>

\* s[lo:hi] and s[lo:] of Go, offsets counted from 0.
Slice(s, lo, hi) == SubSeq(s, lo + 1, hi)
SliceFrom(s, lo) == SubSeq(s, lo + 1, Len(s))

\* strings.Index: offset of the first occurrence of pat in s, or -1.
StringsIndex(s, pat) ==
    LET occ == { i \in 0..(Len(s) - Len(pat)) : Slice(s, i, i + Len(pat)) = pat }
    IN  IF occ = {} THEN -1 ELSE CHOOSE i \in occ : \A j \in occ : i <= j

\* ------------------------------------------------------------------------
\* Extraction of the records of a message
\* ------------------------------------------------------------------------
\* FindLoop recording the offset within the rest of the text that was
\* searched instead of the offset within the message.
RECURSIVE FindLoopRelative(_, _, _)
FindLoopRelative(rawMsg, searchFrom, entryStarts) ==
    LET pos == StringsIndex(SliceFrom(rawMsg, searchFrom), Marker)
    IN  IF pos = -1 THEN entryStarts
        ELSE FindLoopRelative(rawMsg, searchFrom + pos + 4, Append(entryStarts, pos))

\* Lines 56-68 of the parser: the search for the marker, resumed four
\* characters after every occurrence found.
RECURSIVE FindLoop(_, _, _)
FindLoop(rawMsg, searchFrom, entryStarts) ==
    LET pos == StringsIndex(SliceFrom(rawMsg, searchFrom), Marker)
    IN  IF pos = -1 THEN entryStarts
        ELSE FindLoop(rawMsg, searchFrom + pos + 4, Append(entryStarts, searchFrom + pos))

findEntryBoundaries(rawMsg) == FindLoop(rawMsg, 0, <<>>)

\* getEntryEndPos ending every entry at the end of the message.
getEntryEndPosMsgLen(entryStarts, currentIndex, msgLen) == msgLen

\* getEntryEndPos ending an entry at the boundary after the next one.
getEntryEndPosSkipOne(entryStarts, currentIndex, msgLen) ==
    IF currentIndex < Len(entryStarts) - 2
    THEN entryStarts[currentIndex + 3]
    ELSE msgLen

\* currentIndex counts from 0, as in the source.
getEntryEndPos(entryStarts, currentIndex, msgLen) ==
    IF currentIndex < Len(entryStarts) - 1
    THEN entryStarts[currentIndex + 2]
    ELSE msgLen

\* extractSingleFieldValue returning nothing when no delimiter follows.
extractSingleFieldValueNeedsDelimiter(fixSegment, tagPrefix) ==
    LET start == StringsIndex(fixSegment, tagPrefix)
    IN  IF start = -1 THEN <<>>
        ELSE LET from == start + Len(tagPrefix)
                 end == StringsIndex(SliceFrom(fixSegment, from), <<SOH>>)
             IN  IF end = -1 THEN <<>>
                 ELSE Slice(fixSegment, from, from + end)

\* Lines 115-128 of the parser.
extractSingleFieldValue(fixSegment, tagPrefix) ==
    LET start == StringsIndex(fixSegment, tagPrefix)
    IN  IF start = -1 THEN <<>>
        ELSE LET from == start + Len(tagPrefix)
                 end == StringsIndex(SliceFrom(fixSegment, from), <<SOH>>)
             IN  IF end = -1 THEN SliceFrom(fixSegment, from)
                 ELSE Slice(fixSegment, from, from + end)

\* The bounds checks of the slice expressions fixSegment[start:] and
\* fixSegment[start : start+end] of extractSingleFieldValue: a check that
\* fails is a runtime panic.
FieldSlicesInRange(fixSegment, tagPrefix) ==
    LET start == StringsIndex(fixSegment, tagPrefix)
    IN  start = -1 \/
        LET from == start + Len(tagPrefix)
        IN  /\ 0 <= from /\ from <= Len(fixSegment)
            /\ LET end == StringsIndex(SliceFrom(fixSegment, from), <<SOH>>)
               IN  end = -1 \/ (from <= from + end /\ from + end <= Len(fixSegment))

getAggressorSideDesc(side) ==
    IF side = <<"1">> THEN <<"B", "u", "y">>
    ELSE IF side = <<"2">> THEN <<"S", "e", "l", "l">>
    ELSE side

\* fmt.Sprintf("%d", n) for n >= 0.
DecDigits == <<"0", "1", "2", "3", "4", "5", "6", "7", "8", "9">>
RECURSIVE Sprintf_d(_)
Sprintf_d(n) ==
    IF n < 10 THEN <<DecDigits[n + 1]>>
    ELSE Sprintf_d(n \div 10) \o <<DecDigits[(n % 10) + 1]>>

\* Lines 100-106 of the parser: the Position of a record.
PositionOf(position, entryType, entryIndex) ==
    IF position # <<>> THEN position
    ELSE IF entryType = <<"0">> \/ entryType = <<"1">>
         THEN Sprintf_d(entryIndex + 1)
         ELSE <<>>

\* Lines 108-110 of the parser: the Aggressor of a record.
AggressorOf(aggressor) ==
    IF aggressor # <<>> THEN getAggressorSideDesc(aggressor) ELSE <<>>

parseTradeFromSegment(segment, symbol, mdReqId, isSnapshot, seqNum, entryIndex) ==
    LET entryType == extractSingleFieldValue(segment, <<"2", "6", "9", "=">>)
    IN  [Symbol |-> symbol, MdReqId |-> mdReqId, IsSnapshot |-> isSnapshot,
         IsUpdate |-> ~isSnapshot, SeqNum |-> seqNum,
         EntryType |-> entryType,
         Price |-> extractSingleFieldValue(segment, <<"2", "7", "0", "=">>),
         Size |-> extractSingleFieldValue(segment, <<"2", "7", "1", "=">>),
         Time |-> extractSingleFieldValue(segment, <<"2", "7", "3", "=">>),
         Position |-> PositionOf(extractSingleFieldValue(segment, <<"2", "9", "0", "=">>),
                                 entryType, entryIndex),
         Aggressor |-> AggressorOf(extractSingleFieldValue(segment,
                                        <<"2", "4", "4", "6", "=">>)),
         Ord |-> 0]

KnownKinds == { <<"0">>, <<"1">>, <<"2">>, <<"4">>, <<"5">>, <<"7">>, <<"8">>, <<"B">> }

\* ExtractLoop skipping the entries whose kind is not a known one.
ExtractLoopKnownOnly(rawMsg, entryStarts, symbol, mdReqId, isSnapshot, seqNum) ==
    SelectSeq([ k \in 1..Len(entryStarts) |->
                  parseTradeFromSegment(
                      Slice(rawMsg, entryStarts[k],
                            IF k < Len(entryStarts) THEN entryStarts[k + 1] ELSE Len(rawMsg)),
                      symbol, mdReqId, isSnapshot, seqNum, k - 1) ],
              LAMBDA t : t.EntryType \in KnownKinds)

\* Lines 42-53 of the parser: one record per boundary, in the order found.
ExtractLoop(rawMsg, entryStarts, symbol, mdReqId, isSnapshot, seqNum) ==
    [ k \in 1..Len(entryStarts) |->
        parseTradeFromSegment(
            Slice(rawMsg, entryStarts[k], getEntryEndPos(entryStarts, k - 1, Len(rawMsg))),
            symbol, mdReqId, isSnapshot, seqNum, k - 1) ]

\* NoEntriesDeclared testing for the absent field only.
NoEntriesDeclaredAbsentOnly(noMdEntriesStr) == noMdEntriesStr = <<>>

\* Lines 37-40 of the parser: the declared count stops the extraction.
NoEntriesDeclared(noMdEntriesStr) == noMdEntriesStr = <<>> \/ noMdEntriesStr = <<"0">>

\* The number a declared count stands for (the counts of the model have one
\* digit).
DeclaredNumber(noMdEntriesStr) ==
    CHOOSE n \in 0..9 : DecDigits[n + 1] = noMdEntriesStr[1]

\* extractTradesImproved returning at most as many records as declared.
extractTradesImprovedBounded(m, symbol, mdReqId, isSnapshot, seqNum) ==
    LET rawMsg == RawText(m)
    IN  IF NoEntriesDeclared(m.noMdEntries)
        THEN [trades |-> <<>>, scanned |-> FALSE]
        ELSE LET all == ExtractLoop(rawMsg, findEntryBoundaries(rawMsg),
                                    symbol, mdReqId, isSnapshot, seqNum)
             IN  [trades |-> SubSeq(all, 1, Min(Len(all), DeclaredNumber(m.noMdEntries))),
                  scanned |-> TRUE]

\* The result of extractTradesImproved and whether it ran the boundary scan.
extractTradesImproved(m, symbol, mdReqId, isSnapshot, seqNum) ==
    LET rawMsg == RawText(m)
    IN  IF NoEntriesDeclared(m.noMdEntries)
        THEN [trades |-> <<>>, scanned |-> FALSE]
        ELSE [trades |-> ExtractLoop(rawMsg, findEntryBoundaries(rawMsg),
                                     symbol, mdReqId, isSnapshot, seqNum),
              scanned |-> TRUE]

\* ExtractTrades taking every message for a snapshot.
ExtractTradesAlwaysSnapshot ==
    /\ xpc = "received"
    /\ LET res == extractTradesImproved(msg, msg.symbol, msg.mdReqId, TRUE, msg.seqNum)
       IN  /\ extracted' = res.trades
           /\ scanned' = res.scanned
    /\ xpc' = "extracted"
    /\ UNCHANGED <<storeVars, msg, fieldVars, inVars, concVars, heapVars, appVars, dbVars>>

\* handleMarketDataMessage up to the call of extractTrades.
ExtractTrades ==
    /\ xpc = "received"
    /\ LET res == extractTradesImproved(msg, msg.symbol, msg.mdReqId,
                                        msg.msgType = "W", msg.seqNum)
       IN  /\ extracted' = res.trades
           /\ scanned' = res.scanned
    /\ xpc' = "extracted"
    /\ UNCHANGED <<storeVars, msg, fieldVars, inVars, concVars, heapVars, appVars, dbVars>>

InitExtract ==
    /\ maxSize = MaxCap
    /\ trades = <<>>
    /\ subscriptions = <<>>
    /\ updateCount = 0
    /\ panicked = FALSE
    /\ lastOp = NoOp
    /\ msg \in Messages
    /\ extracted = <<>>
    /\ scanned = FALSE
    /\ xpc = "received"
    /\ ConcIdle
    /\ HeapIdle
    /\ AppIdle
    /\ DbIdle
    /\ FieldIdle
    /\ InIdle

NextExtract == ExtractTrades

SpecExtract == InitExtract /\ [][NextExtract]_vars

\* ------------------------------------------------------------------------
\* extractSingleFieldValue called on its own
\* ------------------------------------------------------------------------
MaxSegFields == 2

\* The fields of the spans: entry fields and a field whose tag ends with the
\* digits of an entry tag.
SegFields ==
    { f \in FieldSet :
        \/ f.tag \in { <<"2", "7", "0">>, <<"2", "7", "1">>, <<"2", "9", "0">>,
                       <<"1", "2", "9", "0">> }
        \/ (f.tag = <<"2", "6", "9">> /\ f.val = <<"2">>)
        \/ (f.tag = <<"2", "4", "4", "6">> /\ f.val = <<"1">>) }

\* The spans: up to MaxSegFields fields, the last one with or without its
\* delimiter.
Segments ==
    LET whole == { FieldsText(fs) : fs \in SeqsUpTo(SegFields, MaxSegFields) }
    IN  whole \cup { SubSeq(t, 1, Len(t) - 1) : t \in whole \ { <<>> } }

\* The tag prefixes asked for: those of the parser and one that occurs in no
\* span.
TagPrefixes ==
    { <<"2", "6", "9", "=">>, <<"2", "7", "0", "=">>, <<"2", "9", "0", "=">>,
      <<"9", "9", "9", "=">> }

ExtractSingleFieldValue ==
    /\ fcall.pc = "called"
    /\ fcall' = [fcall EXCEPT
                    !.pc = IF FieldSlicesInRange(fcall.segment, fcall.tagPrefix)
                           THEN "returned" ELSE "panicked",
                    !.value = IF FieldSlicesInRange(fcall.segment, fcall.tagPrefix)
                              THEN extractSingleFieldValue(fcall.segment, fcall.tagPrefix)
                              ELSE <<>>]
    /\ UNCHANGED <<storeVars, extractVars, inVars, concVars, heapVars, appVars, dbVars>>

InitField ==
    /\ maxSize = MaxCap
    /\ trades = <<>>
    /\ subscriptions = <<>>
    /\ updateCount = 0
    /\ panicked = FALSE
    /\ lastOp = NoOp
    /\ msg = NoMsg
    /\ extracted = <<>>
    /\ scanned = FALSE
    /\ xpc = "idle"
    /\ ConcIdle
    /\ HeapIdle
    /\ AppIdle
    /\ DbIdle
    /\ InIdle
    /\ \E seg \in Segments, prefix \in TagPrefixes :
          fcall = [pc |-> "called", segment |-> seg, tagPrefix |-> prefix, value |-> <<>>]

NextField == ExtractSingleFieldValue

SpecField == InitField /\ [][NextField]_vars

\* ------------------------------------------------------------------------
\* Specification of the store
\* ------------------------------------------------------------------------
Next ==
    \/ \E st \in Streams, b \in Batches, snap \in BOOLEAN :
          AddTrades(st.symbol, b, snap, st.reqId)
    \/ \E s \in Symbols, t \in SubTypes, r \in ReqIds : AddSubscription(s, t, r)
    \/ \E s \in Symbols : RemoveSubscription(s)
    \/ \E r \in ReqIds : RemoveSubscriptionByReqId(r)

Spec == Init /\ [][Next]_vars

TypeOK ==
    /\ maxSize \in 0..MaxCap
    /\ Len(trades) <= MaxCap
    /\ DOMAIN subscriptions \subseteq ReqIds
    /\ updateCount \in 0..MaxAppended
    /\ panicked \in BOOLEAN

\* ------------------------------------------------------------------------
\* Concurrent callers of one TradeStore
\* ------------------------------------------------------------------------
\* AddTrades and GetRecentTrades step by step, each goroutine at its own
\* position.  The append of a record is a load of ts.trades and
\* ts.updateCount followed by a store, so that callers not excluded by the
\* lock would overwrite each other.

\* Lock acquired whatever the state of the mutex.
CanLockAlways(m) == TRUE

\* sync.RWMutex.Lock returns when no goroutine holds the mutex.
CanLock(m) == m.writer = "none" /\ m.readers = {}

\* RLock acquired whatever the state of the mutex.
CanRLockAlways(m) == TRUE

\* sync.RWMutex.RLock returns when no goroutine holds the write lock.
CanRLock(m) == m.writer = "none"

SumOver(f) == f["r1"] + f["r2"]

\* Line 67: ts.mu.Lock() at the entry of AddTrades.
WLock(w, symbol, batch, isSnapshot, mdReqId) ==
    /\ wpc[w] = "idle"
    /\ SumOver(hist.submitted) + Len(batch) <= MaxAppended
    /\ CanLock(mu)
    /\ mu' = [mu EXCEPT !.writer = w]
    /\ wpc' = [wpc EXCEPT ![w] = "locked"]
    /\ wcall' = [wcall EXCEPT ![w] = [symbol |-> symbol, batch |-> batch,
                                       isSnapshot |-> isSnapshot, mdReqId |-> mdReqId,
                                       i |-> 1, cur |-> <<>>, cnt |-> 0]]
    /\ hist' = [hist EXCEPT !.submitted[mdReqId] = @ + Len(batch)]
    /\ UNCHANGED <<storeVars, extractVars, fieldVars, inVars, rpc, rres,
                   heapVars, appVars, dbVars>>

\* WCount releasing the lock after the counters, the append loop running
\* outside the critical section.
WCountRelease(w) ==
    /\ wpc[w] = "locked"
    /\ subscriptions' = AddTradesSubs(subscriptions, Len(wcall[w].batch),
                                      wcall[w].isSnapshot, wcall[w].mdReqId)
    /\ wpc' = [wpc EXCEPT ![w] = "loop"]
    /\ mu' = [mu EXCEPT !.writer = "none"]
    /\ UNCHANGED <<maxSize, trades, updateCount, panicked, lastOp, extractVars, fieldVars, inVars,
                   wcall, rpc, rres, hist,
                   heapVars, appVars, dbVars>>

\* Lines 70-76: the activity counters.
WCount(w) ==
    /\ wpc[w] = "locked"
    /\ subscriptions' = AddTradesSubs(subscriptions, Len(wcall[w].batch),
                                      wcall[w].isSnapshot, wcall[w].mdReqId)
    /\ wpc' = [wpc EXCEPT ![w] = "loop"]
    /\ UNCHANGED <<maxSize, trades, updateCount, panicked, lastOp, extractVars, fieldVars, inVars,
                   mu, wcall, rpc, rres, hist,
                   heapVars, appVars, dbVars>>

\* Lines 85-88 and 89, the reads: the slice the record is appended to, after
\* the eviction, and the counter.
WLoad(w) ==
    /\ wpc[w] = "loop"
    /\ wcall[w].i <= Len(wcall[w].batch)
    /\ maxSize >= 1
    /\ wcall' = [wcall EXCEPT ![w].cur = IF Len(trades) >= maxSize
                                          THEN Tail(trades) ELSE trades,
                               ![w].cnt = updateCount]
    /\ wpc' = [wpc EXCEPT ![w] = "store"]
    /\ UNCHANGED <<storeVars, extractVars, fieldVars, inVars, mu, rpc, rres, hist,
                   heapVars, appVars, dbVars>>

\* Lines 79-83, 88 and 89, the writes: the stamped record appended.
WStore(w) ==
    /\ wpc[w] = "store"
    /\ LET c == wcall[w]
           trade == StampTrade(c.batch[c.i], c.symbol, c.isSnapshot, c.mdReqId, c.cnt + 1)
       IN  /\ trades' = Append(c.cur, trade)
           /\ updateCount' = c.cnt + 1
           /\ hist' = [hist EXCEPT !.appended[c.mdReqId] = @ + 1]
    /\ wcall' = [wcall EXCEPT ![w].i = @ + 1, ![w].cur = <<>>, ![w].cnt = 0]
    /\ wpc' = [wpc EXCEPT ![w] = "loop"]
    /\ UNCHANGED <<maxSize, subscriptions, panicked, lastOp, extractVars, fieldVars, inVars, mu, rpc, rres,
                   heapVars, appVars, dbVars>>

\* Line 68: the deferred ts.mu.Unlock() when the loop is over.
WUnlock(w) ==
    /\ wpc[w] = "loop"
    /\ wcall[w].i > Len(wcall[w].batch)
    /\ mu' = [mu EXCEPT !.writer = IF @ = w THEN "none" ELSE @]
    /\ wpc' = [wpc EXCEPT ![w] = "idle"]
    /\ wcall' = [wcall EXCEPT ![w] = NoCall]
    /\ lastOp' = [op |-> "AddTrades", symbol |-> wcall[w].symbol,
                  reqId |-> wcall[w].mdReqId, n |-> Len(wcall[w].batch)]
    /\ UNCHANGED <<maxSize, trades, subscriptions, updateCount, panicked,
                   extractVars, fieldVars, inVars, rpc, rres, hist,
                   heapVars, appVars, dbVars>>

\* Line 94: ts.mu.RLock() at the entry of GetRecentTrades.
RLock(g) ==
    /\ rpc[g] = "idle"
    /\ CanRLock(mu)
    /\ mu' = [mu EXCEPT !.readers = @ \cup {g}]
    /\ rpc' = [rpc EXCEPT ![g] = "rlocked"]
    /\ UNCHANGED <<storeVars, extractVars, fieldVars, inVars, wpc, wcall, rres, hist,
                   heapVars, appVars, dbVars>>

\* Lines 97-108: the scan of the buffer.
RRead(g, symbol, limit) ==
    /\ rpc[g] = "rlocked"
    /\ rres' = [rres EXCEPT ![g] = GetRecentTrades(trades, symbol, limit)]
    /\ rpc' = [rpc EXCEPT ![g] = "read"]
    /\ UNCHANGED <<storeVars, extractVars, fieldVars, inVars, mu, wpc, wcall, hist,
                   heapVars, appVars, dbVars>>

\* Line 95: the deferred ts.mu.RUnlock().
RUnlock(g) ==
    /\ rpc[g] = "read"
    /\ mu' = [mu EXCEPT !.readers = @ \ {g}]
    /\ rpc' = [rpc EXCEPT ![g] = "idle"]
    /\ UNCHANGED <<storeVars, extractVars, fieldVars, inVars, wpc, wcall, rres, hist,
                   heapVars, appVars, dbVars>>

\* A store of capacity 1..MaxCap with a subscription registered for each
\* stream, as after NewTradeStore and two AddSubscription calls.
InitConc ==
    /\ maxSize \in 1..MaxCap
    /\ trades = <<>>
    /\ subscriptions = [r \in ReqIds |->
                          NewSubscription((CHOOSE st \in Streams : st.reqId = r).symbol,
                                          "1", r)]
    /\ updateCount = 0
    /\ panicked = FALSE
    /\ lastOp = NoOp
    /\ msg = NoMsg
    /\ extracted = <<>>
    /\ scanned = FALSE
    /\ xpc = "idle"
    /\ ConcIdle
    /\ HeapIdle
    /\ AppIdle
    /\ DbIdle
    /\ FieldIdle
    /\ InIdle

NextConc ==
    \/ \E w \in Writers, st \in Streams, b \in Batches, snap \in BOOLEAN :
          WLock(w, st.symbol, b, snap, st.reqId)
    \/ \E w \in Writers : WCount(w)
    \/ \E w \in Writers : WLoad(w)
    \/ \E w \in Writers : WStore(w)
    \/ \E w \in Writers : WUnlock(w)
    \/ \E g \in Readers : RLock(g)
    \/ \E g \in Readers, s \in Symbols : RRead(g, s, MaxCap + 1)
    \/ \E g \in Readers : RUnlock(g)

SpecConc == InitConc /\ [][NextConc]_vars

\* ------------------------------------------------------------------------
\* The store as pointers and slices
\* ------------------------------------------------------------------------
\* ts.subscriptions maps a request id to a pointer to a Subscription, and
\* ts.trades is a slice over a backing array.  The getters hand pointers and
\* slices to their callers, who may write through them.  The variables
\* subscriptions and trades keep the contents the store calls produce.

\* &Subscription{...}, make: an address not in use.  An address names the
\* site of the allocation ("store" or "copy"), the key the struct is
\* allocated for, and a generation, the lowest that is free.
FreshAddr(site, key, used) ==
    LET free == { n \in 0..Cardinality(used) :
                    [site |-> site, key |-> key, gen |-> n] \notin used }
    IN  [site |-> site, key |-> key, gen |-> CHOOSE n \in free : \A k \in free : n <= k]

\* The contents of a slice.
SliceView(arrs, hdr) == SubSeq(arrs[hdr.arr], hdr.off + 1, hdr.off + hdr.len)

\* The contents of a map of pointers.
PtrView(h, ptrs) == [r \in DOMAIN ptrs |-> h[ptrs[r]]]

\* The contents of a map from symbol to a list of pointers, the list taken
\* as a set (the order of a map iteration is not fixed).
GroupView(h, groups) == [sym \in DOMAIN groups |-> { h[a] : a \in groups[sym] }]

RetView(h, arrs, r) ==
    IF r.kind = "status" THEN PtrView(h, r.ptrs)
    ELSE IF r.kind = "bySymbol" THEN GroupView(h, r.groups)
    ELSE IF r.kind = "trades" THEN SliceView(arrs, r.hdr)
    ELSE <<>>

RetAddrs(r) ==
    IF r.kind = "status" THEN { r.ptrs[q] : q \in DOMAIN r.ptrs }
    ELSE IF r.kind = "bySymbol" THEN UNION { r.groups[sym] : sym \in DOMAIN r.groups }
    ELSE {}

RetArrays(r) == IF r.kind = "trades" THEN { r.hdr.arr } ELSE {}

\* What the garbage collector keeps: the structs and arrays the store or
\* the caller's value still point to.
KeepCells(h, ptrs, r) ==
    [a \in DOMAIN h \cap ({ ptrs[q] : q \in DOMAIN ptrs } \cup RetAddrs(r)) |-> h[a]]
KeepArrays(arrs, hdr, r) ==
    [b \in DOMAIN arrs \cap ({ hdr.arr } \cup RetArrays(r)) |-> arrs[b]]

\* Lines 164-168: "sub := *v; result[reqId] = &sub" for every entry of
\* the map: a new struct for each, holding a copy.  Gives the heap and the
\* map from request id to the address of the copy.
CopyCells(h, ptrs) ==
    LET to == [q \in DOMAIN ptrs |-> FreshAddr("copy", q, DOMAIN h)]
        new == { to[q] : q \in DOMAIN ptrs }
    IN  [heap |-> [c \in DOMAIN h \cup new |->
                     IF c \in new
                     THEN h[ptrs[CHOOSE q \in DOMAIN ptrs : to[q] = c]]
                     ELSE h[c]],
         to |-> to]

\* GetSubscriptionStatus storing the pointers of the store in its result.
StatusResultShared(h, ptrs) == [heap |-> h, ptrs |-> ptrs]

\* Lines 163-169: the result of GetSubscriptionStatus and the heap after it.
StatusResult(h, ptrs) ==
    LET cp == CopyCells(h, ptrs)
    IN  [heap |-> cp.heap, ptrs |-> cp.to]

\* GetSubscriptionsBySymbol assigning the group of a symbol instead of
\* appending to it: every group holds one subscription.
BySymbolResultAssign(h, ptrs) ==
    LET cp == CopyCells(h, ptrs)
        syms == { h[ptrs[q]].Symbol : q \in DOMAIN ptrs }
    IN  [heap |-> cp.heap,
         groups |-> [sym \in syms |->
                       { cp.to[CHOOSE q \in DOMAIN ptrs : h[ptrs[q]].Symbol = sym] }]]

\* Lines 176-182: the result of GetSubscriptionsBySymbol.
BySymbolResult(h, ptrs) ==
    LET cp == CopyCells(h, ptrs)
        syms == { h[ptrs[q]].Symbol : q \in DOMAIN ptrs }
    IN  [heap |-> cp.heap,
         groups |-> [sym \in syms |->
                       { cp.to[q] : q \in { x \in DOMAIN ptrs : h[ptrs[x]].Symbol = sym } }]]

\* Lines 115-117: the result of GetAllTrades, a new array of the length of
\* ts.trades holding a copy of its elements.
AllTradesResult(arrs, hdr) ==
    LET b == FreshAddr("copy", "trades", DOMAIN arrs)
    IN  [arrays |-> [c \in DOMAIN arrs \cup {b} |->
                        IF c = b THEN SliceView(arrs, hdr) ELSE arrs[c]],
         hdr |-> [arr |-> b, off |-> 0, len |-> hdr.len]]

\* append(s, trade): in place when the backing array has room after the
\* slice, else into a new array of twice the capacity.
GoAppend(arrs, hdr, trade) ==
    LET cap == Len(arrs[hdr.arr]) - hdr.off
    IN  IF hdr.len < cap
        THEN [arrays |-> [arrs EXCEPT ![hdr.arr][hdr.off + hdr.len + 1] = trade],
              hdr |-> [hdr EXCEPT !.len = @ + 1]]
        ELSE LET b == FreshAddr("store", "trades", DOMAIN arrs)
                 newcap == IF 2 * cap > hdr.len + 1 THEN 2 * cap ELSE hdr.len + 1
                 elems == SliceView(arrs, hdr) \o <<trade>>
                          \o [k \in 1..(newcap - hdr.len - 1) |-> ZeroTrade]
             IN  [arrays |-> [c \in DOMAIN arrs \cup {b} |-> IF c = b THEN elems ELSE arrs[c]],
                  hdr |-> [arr |-> b, off |-> 0, len |-> hdr.len + 1]]

\* Lines 78-90 on the slice: ts.trades[1:] when full, then append.
RECURSIVE SliceAppendLoop(_, _, _, _, _, _, _, _)
SliceAppendLoop(arrs, hdr, cap, batch, i, symbol, isSnapshot, mdReqId) ==
    IF i > Len(batch) THEN [arrays |-> arrs, hdr |-> hdr]
    ELSE LET trade == StampTrade(batch[i], symbol, isSnapshot, mdReqId, updateCount + i)
             kept == IF hdr.len >= cap
                     THEN [hdr EXCEPT !.off = @ + 1, !.len = @ - 1]
                     ELSE hdr
             app == GoAppend(arrs, kept, trade)
         IN  SliceAppendLoop(app.arrays, app.hdr, cap, batch, i + 1,
                             symbol, isSnapshot, mdReqId)

\* AddSubscription: a new struct, its address stored in the map.
HAddSubscription(symbol, subscriptionType, mdReqId) ==
    LET a == FreshAddr("store", mdReqId, DOMAIN heap)
        h == [c \in DOMAIN heap \cup {a} |->
                IF c = a THEN NewSubscription(symbol, subscriptionType, mdReqId)
                ELSE heap[c]]
        ptrs == [q \in DOMAIN subPtr \cup {mdReqId} |->
                   IF q = mdReqId THEN a ELSE subPtr[q]]
    IN  /\ subPtr' = ptrs
        /\ heap' = KeepCells(h, ptrs, ret)
        /\ subscriptions' = AddSubscriptionOp(subscriptions, symbol, subscriptionType, mdReqId)
        /\ UNCHANGED <<maxSize, trades, updateCount, panicked, lastOp, extractVars, fieldVars, inVars, concVars,
                       arrays, tslice, ret, retVal, appVars, dbVars>>

\* RemoveSubscription: delete(ts.subscriptions, reqId) for the symbol.
HRemoveSubscription(symbol) ==
    LET ptrs == [q \in { x \in DOMAIN subPtr : heap[subPtr[x]].Symbol # symbol } |->
                   subPtr[q]]
    IN  /\ subPtr' = ptrs
        /\ heap' = KeepCells(heap, ptrs, ret)
        /\ subscriptions' = RemoveSubscriptionOp(subscriptions, symbol)
        /\ UNCHANGED <<maxSize, trades, updateCount, panicked, lastOp, extractVars, fieldVars, inVars, concVars,
                       arrays, tslice, ret, retVal, appVars, dbVars>>

\* RemoveSubscriptionByReqId: delete(ts.subscriptions, reqId).
HRemoveSubscriptionByReqId(reqId) ==
    LET ptrs == [q \in DOMAIN subPtr \ {reqId} |-> subPtr[q]]
    IN  /\ subPtr' = ptrs
        /\ heap' = KeepCells(heap, ptrs, ret)
        /\ subscriptions' = RemoveSubscriptionByReqIdOp(subscriptions, reqId)
        /\ UNCHANGED <<maxSize, trades, updateCount, panicked, lastOp, extractVars, fieldVars, inVars, concVars,
                       arrays, tslice, ret, retVal, appVars, dbVars>>

\* AddTrades: the counters written through the pointer of the map, the
\* records appended to the slice.
HAddTrades(symbol, batch, isSnapshot, mdReqId) ==
    /\ updateCount + Len(batch) <= MaxAppended
    /\ heap' = IF mdReqId \in DOMAIN subPtr
               THEN [heap EXCEPT ![subPtr[mdReqId]].TotalUpdates = @ + Len(batch),
                                 ![subPtr[mdReqId]].SnapshotReceived = @ \/ isSnapshot]
               ELSE heap
    /\ LET app == SliceAppendLoop(arrays, tslice, maxSize, batch, 1,
                                  symbol, isSnapshot, mdReqId)
       IN  /\ tslice' = app.hdr
           /\ arrays' = KeepArrays(app.arrays, app.hdr, ret)
    /\ LET st == AppendLoop([trades |-> trades, updateCount |-> updateCount,
                             panicked |-> FALSE],
                            maxSize, batch, 1, symbol, isSnapshot, mdReqId)
       IN  /\ trades' = st.trades
           /\ updateCount' = st.updateCount
    /\ subscriptions' = AddTradesSubs(subscriptions, Len(batch), isSnapshot, mdReqId)
    /\ UNCHANGED <<maxSize, panicked, lastOp, extractVars, fieldVars, inVars, concVars, subPtr, ret, retVal,
                   appVars, dbVars>>

HGetSubscriptionStatus ==
    LET r == StatusResult(KeepCells(heap, subPtr, NoRet), subPtr)
        v == [kind |-> "status", ptrs |-> r.ptrs]
    IN  /\ ret' = v
        /\ heap' = KeepCells(r.heap, subPtr, v)
        /\ arrays' = KeepArrays(arrays, tslice, v)
        /\ retVal' = RetView(heap', arrays', v)
        /\ UNCHANGED <<maxSize, trades, subscriptions, updateCount, panicked, lastOp,
                       extractVars, fieldVars, inVars, concVars, subPtr, tslice, appVars, dbVars>>

HGetSubscriptionsBySymbol ==
    LET r == BySymbolResult(KeepCells(heap, subPtr, NoRet), subPtr)
        v == [kind |-> "bySymbol", groups |-> r.groups]
    IN  /\ ret' = v
        /\ heap' = KeepCells(r.heap, subPtr, v)
        /\ arrays' = KeepArrays(arrays, tslice, v)
        /\ retVal' = RetView(heap', arrays', v)
        /\ UNCHANGED <<maxSize, trades, subscriptions, updateCount, panicked, lastOp,
                       extractVars, fieldVars, inVars, concVars, subPtr, tslice, appVars, dbVars>>

HGetAllTrades ==
    LET r == AllTradesResult(KeepArrays(arrays, tslice, NoRet), tslice)
        v == [kind |-> "trades", hdr |-> r.hdr]
    IN  /\ ret' = v
        /\ heap' = KeepCells(heap, subPtr, v)
        /\ arrays' = KeepArrays(r.arrays, tslice, v)
        /\ retVal' = RetView(heap', arrays', v)
        /\ UNCHANGED <<maxSize, trades, subscriptions, updateCount, panicked, lastOp,
                       extractVars, fieldVars, inVars, concVars, subPtr, tslice, appVars, dbVars>>

\* The caller of a getter writes a field of a Subscription it was handed.
\* (The caller lets go of the value it holds when it calls a getter again.)
CallerWritesSub(a) ==
    /\ a \in RetAddrs(ret)
    /\ heap[a].Active
    /\ heap' = [heap EXCEPT ![a].Active = FALSE]
    /\ retVal' = RetView(heap', arrays, ret)
    /\ UNCHANGED <<maxSize, trades, subscriptions, updateCount, panicked, lastOp,
                   extractVars, fieldVars, inVars, concVars, subPtr, arrays, tslice, ret, appVars, dbVars>>

\* The caller of GetAllTrades writes a field of a record it was handed.
CallerWritesTrade(i) ==
    /\ ret.kind = "trades"
    /\ i \in 1..ret.hdr.len
    /\ arrays[ret.hdr.arr][ret.hdr.off + i].Price # <<"0">>
    /\ arrays' = [arrays EXCEPT ![ret.hdr.arr][ret.hdr.off + i].Price = <<"0">>]
    /\ retVal' = RetView(heap, arrays', ret)
    /\ UNCHANGED <<maxSize, trades, subscriptions, updateCount, panicked, lastOp,
                   extractVars, fieldVars, inVars, concVars, heap, subPtr, tslice, ret, appVars, dbVars>>

InitCopy ==
    /\ maxSize = MaxCap
    /\ trades = <<>>
    /\ subscriptions = <<>>
    /\ updateCount = 0
    /\ panicked = FALSE
    /\ lastOp = NoOp
    /\ msg = NoMsg
    /\ extracted = <<>>
    /\ scanned = FALSE
    /\ xpc = "idle"
    /\ ConcIdle
    /\ HeapIdle
    /\ AppIdle
    /\ DbIdle
    /\ FieldIdle
    /\ InIdle

NextCopy ==
    \/ \E b \in Batches : HAddTrades("BTC-USD", b, FALSE, "r1")
    \/ \E st \in Streams \cup { [symbol |-> "BTC-USD", reqId |-> "r2"] } :
          HAddSubscription(st.symbol, "1", st.reqId)
    \/ \E sym \in Symbols : HRemoveSubscription(sym)
    \/ \E r \in ReqIds : HRemoveSubscriptionByReqId(r)
    \/ HGetSubscriptionStatus
    \/ HGetSubscriptionsBySymbol
    \/ HGetAllTrades
    \/ \E a \in DOMAIN heap : CallerWritesSub(a)
    \/ \E i \in 1..MaxCap : CallerWritesTrade(i)

SpecCopy == InitCopy /\ [][NextCopy]_vars

\* ------------------------------------------------------------------------
\* Persistence of the records of a message
\* ------------------------------------------------------------------------
\* storeTradesToDatabase step by step.  BeginTransaction, every insert and
\* Commit either succeed or fail; which, is an input of the step.

\* The records of a message as handed to storeTradesToDatabase: a trade, a
\* bid, and a record of a kind that is not one of the recognized ones.
PersistTrades ==
    { [t EXCEPT !.EntryType = k] : t \in InputTrades, k \in { <<"2">>, <<"0">>, <<"Z">> } }

PersistBatches == SeqsUpTo(PersistTrades, MaxBatch)

\* The switch on trade.EntryType: the table the record is inserted into,
\* "" when no case matches.
TableOf(entryType) ==
    IF entryType = <<"2">> THEN "trades"
    ELSE IF entryType \in { <<"0">>, <<"1">> } THEN "order_book"
    ELSE IF entryType \in { <<"4">>, <<"5">>, <<"7">>, <<"8">>, <<"B">> } THEN "ohlcv"
    ELSE ""

\* The row a record is inserted as: idx is its index in the message, msgNo
\* the number of the message.
RowOf(trade, idx, msgNo) ==
    [table |-> TableOf(trade.EntryType), kind |-> trade.EntryType,
     price |-> trade.Price, size |-> trade.Size, idx |-> idx, msgNo |-> msgNo]

\* InsertStep going on with the next record after a failed insert.
InsertStepContinue(call, rows, log, ok) ==
    LET trade == call.batch[call.i]
    IN  IF TableOf(trade.EntryType) = ""
        THEN [call |-> [call EXCEPT !.i = @ + 1], tx |-> rows, log |-> log, returned |-> FALSE]
        ELSE IF ok
        THEN [call |-> [call EXCEPT !.i = @ + 1],
              tx |-> Append(rows, RowOf(trade, call.i, log.msgs)),
              log |-> [log EXCEPT !.attempted = Append(@, call.i)],
              returned |-> FALSE]
        ELSE [call |-> [call EXCEPT !.i = @ + 1], tx |-> rows,
              log |-> [log EXCEPT !.attempted = Append(@, call.i)],
              returned |-> FALSE]

\* InsertStep returning at a record no case matches, as after a failed
\* insert.
InsertStepAbortUnknown(call, rows, log, ok) ==
    LET trade == call.batch[call.i]
    IN  IF TableOf(trade.EntryType) = ""
        THEN [call |-> call, tx |-> <<>>,
              log |-> [log EXCEPT !.outcome = "insertFailed"], returned |-> TRUE]
        ELSE IF ok
        THEN [call |-> [call EXCEPT !.i = @ + 1],
              tx |-> Append(rows, RowOf(trade, call.i, log.msgs)),
              log |-> [log EXCEPT !.attempted = Append(@, call.i)],
              returned |-> FALSE]
        ELSE [call |-> call, tx |-> <<>>,
              log |-> [log EXCEPT !.attempted = Append(@, call.i),
                                  !.outcome = "insertFailed"],
              returned |-> TRUE]

\* One iteration of the loop over the records: no insert for a record no
\* case matches; after a failed insert the function returns and the
\* deferred tx.Rollback() discards the rows of the transaction.
InsertStep(call, rows, log, ok) ==
    LET trade == call.batch[call.i]
    IN  IF TableOf(trade.EntryType) = ""
        THEN [call |-> [call EXCEPT !.i = @ + 1], tx |-> rows, log |-> log, returned |-> FALSE]
        ELSE IF ok
        THEN [call |-> [call EXCEPT !.i = @ + 1],
              tx |-> Append(rows, RowOf(trade, call.i, log.msgs)),
              log |-> [log EXCEPT !.attempted = Append(@, call.i)],
              returned |-> FALSE]
        ELSE [call |-> call, tx |-> <<>>,
              log |-> [log EXCEPT !.attempted = Append(@, call.i),
                                  !.outcome = "insertFailed"],
              returned |-> TRUE]

\* The records of the next message are handed to AddTrades and then to
\* storeTradesToDatabase, up to a.DB.BeginTransaction().
PBegin(batch, ok) ==
    /\ ppc \in {"idle", "done"}
    /\ plog.msgs < MaxMessages
    /\ LET st == AppendLoop([trades |-> trades, updateCount |-> updateCount,
                             panicked |-> FALSE],
                            maxSize, batch, 1, "BTC-USD", FALSE, "r1")
       IN  /\ trades' = st.trades
           /\ updateCount' = st.updateCount
           /\ panicked' = st.panicked
    /\ subscriptions' = AddTradesSubs(subscriptions, Len(batch), FALSE, "r1")
    /\ pcall' = [batch |-> batch, i |-> 1]
    /\ tx' = <<>>
    /\ ppc' = IF ok THEN "begun" ELSE "done"
    /\ plog' = [msgs |-> plog.msgs + 1, begins |-> 1, attempted |-> <<>>,
                outcome |-> IF ok THEN "none" ELSE "beginFailed", before |-> db]
    /\ UNCHANGED <<maxSize, lastOp, extractVars, fieldVars, inVars, concVars, heapVars,
                   appVars, db>>

PInsert(ok) ==
    /\ ppc = "begun"
    /\ pcall.i <= Len(pcall.batch)
    /\ LET r == InsertStep(pcall, tx, plog, ok)
       IN  /\ pcall' = r.call
           /\ tx' = r.tx
           /\ plog' = r.log
           /\ ppc' = IF r.returned THEN "done" ELSE "begun"
    /\ UNCHANGED <<storeVars, extractVars, fieldVars, inVars, concVars, heapVars, appVars, db>>

\* tx.Commit() after the loop; the rows of the transaction become rows of
\* the database, or are discarded when the commit fails.
PCommit(ok) ==
    /\ ppc = "begun"
    /\ pcall.i > Len(pcall.batch)
    /\ db' = IF ok THEN db \o tx ELSE db
    /\ tx' = <<>>
    /\ ppc' = "done"
    /\ plog' = [plog EXCEPT !.outcome = IF ok THEN "committed" ELSE "commitFailed"]
    /\ UNCHANGED <<storeVars, extractVars, fieldVars, inVars, concVars, heapVars, appVars, pcall>>

InitPersist ==
    /\ maxSize = MaxCap
    /\ trades = <<>>
    /\ subscriptions = <<>>
    /\ updateCount = 0
    /\ panicked = FALSE
    /\ lastOp = NoOp
    /\ msg = NoMsg
    /\ extracted = <<>>
    /\ scanned = FALSE
    /\ xpc = "idle"
    /\ ConcIdle
    /\ HeapIdle
    /\ AppIdle
    /\ DbIdle
    /\ FieldIdle
    /\ InIdle

NextPersist ==
    \/ \E b \in PersistBatches, ok \in BOOLEAN : PBegin(b, ok)
    \/ \E ok \in BOOLEAN : PInsert(ok)
    \/ \E ok \in BOOLEAN : PCommit(ok)

SpecPersist == InitPersist /\ [][NextPersist]_vars

\* ------------------------------------------------------------------------
\* Commands of the console
\* ------------------------------------------------------------------------
\* The md and unsubscribe commands.  A command line is the sequence of its
\* words, a word a sequence of characters.  quickfix.Send succeeds or fails
\* for each message; which, is an input of the command.

LowerCase == <<"a", "b", "c", "d", "e", "f", "g", "h", "i", "j", "k", "l", "m", "n", "o", "p", "q", "r", "s", "t", "u", "v", "w", "x", "y", "z">>
UpperCase == <<"A", "B", "C", "D", "E", "F", "G", "H", "I", "J", "K", "L", "M", "N", "O", "P", "Q", "R", "S", "T", "U", "V", "W", "X", "Y", "Z">>

\* strings.ToUpper
ToUpper(text) ==
    [k \in 1..Len(text) |->
        IF \E j \in 1..26 : LowerCase[j] = text[k]
        THEN UpperCase[CHOOSE j \in 1..26 : LowerCase[j] = text[k]]
        ELSE text[k]]

\* strings.HasPrefix
HasPrefix(text, prefix) ==
    Len(text) >= Len(prefix) /\ SubSeq(text, 1, Len(prefix)) = prefix

WordUnsubscribe == <<"u", "n", "s", "u", "b", "s", "c", "r", "i", "b", "e">>
WordReqidFlag == <<"-", "-", "r", "e", "q", "i", "d">>
PrefixMd == <<"m", "d", "_">>

\* fmt.Sprintf("md_%d", time.Now().UnixNano()), n the clock reading.
IdText(n) == PrefixMd \o Sprintf_d(n)

\* The symbols as typed and the words of an unsubscribe command line.
TypedSymbols == { <<"b", "t", "c">>, <<"E", "T", "H">> }
Words == TypedSymbols \cup { IdText(1), IdText(2), <<"M", "D", "_", "1">>, PrefixMd, WordReqidFlag }
UnsubscribeLines ==
    { <<WordUnsubscribe>> }
    \cup { <<WordUnsubscribe, a>> : a \in Words }
    \cup { <<WordUnsubscribe, a, b>> : a \in { WordReqidFlag, IdText(1), <<"b", "t", "c">> },
                                       b \in Words }

\* The outcomes of the sends of a command that sends for the subscriptions
\* in affected: one per registered request id, success for the others.
SendOutcomes(subs, affected) ==
    { oks \in [DOMAIN subs -> BOOLEAN] : \A r \in DOMAIN subs \ affected : oks[r] }

\* The message handed to quickfix.Send and whether the send succeeded.
Sent(reqId, symbol, subscriptionType, ok) ==
    [reqId |-> reqId, symbol |-> symbol, subType |-> subscriptionType, ok |-> ok]

\* sendMarketDataRequestWithOptions registering every request but an
\* unsubscribe.
RegisterRequestAlways(subs, symbol, subscriptionType, reqId) ==
    IF subscriptionType # "2"
    THEN AddSubscriptionOp(subs, symbol, subscriptionType, reqId)
    ELSE subs

\* Lines 483-485 of the sender: only a Subscribe request is registered.
RegisterRequest(subs, symbol, subscriptionType, reqId) ==
    IF subscriptionType = "1"
    THEN AddSubscriptionOp(subs, symbol, subscriptionType, reqId)
    ELSE subs

\* sendMarketDataRequestWithOptions: the registry after the call.
SendMarketDataRequest(subs, symbol, subscriptionType, reqId, ok) ==
    LET registered == RegisterRequest(subs, symbol, subscriptionType, reqId)
    IN  IF ok THEN registered ELSE RemoveSubscriptionOp(registered, symbol)

\* sendUnsubscribeBySymbol sending for one of the subscriptions only.
UnsubscribeBySymbolFirstOnly(subs, symbol, oks) ==
    LET symbolSubs == { r \in DOMAIN subs : subs[r].Symbol = symbol }
        first == IF symbolSubs = {} THEN {}
                 ELSE { CHOOSE r \in symbolSubs : TRUE }
    IN  [sends |-> { Sent(subs[r].MdReqId, symbol, "2", oks[r]) : r \in first },
         subs |-> [r \in { q \in DOMAIN subs : ~(q \in first /\ oks[q]) } |-> subs[r]]]

\* sendUnsubscribeBySymbol: the messages sent and the registry after the
\* call; oks tells for each request id whether its send succeeds.
UnsubscribeBySymbol(subs, symbol, oks) ==
    LET symbolSubs == { r \in DOMAIN subs : subs[r].Symbol = symbol }
    IN  [sends |-> { Sent(subs[r].MdReqId, symbol, "2", oks[r]) : r \in symbolSubs },
         subs |-> [r \in { q \in DOMAIN subs : ~(q \in symbolSubs /\ oks[q]) } |-> subs[r]]]

\* sendUnsubscribeByReqID removing the subscription whatever the send did.
UnsubscribeByReqIdRemoveAlways(subs, reqId, oks) ==
    IF reqId \notin DOMAIN subs THEN [sends |-> {}, subs |-> subs]
    ELSE [sends |-> { Sent(reqId, subs[reqId].Symbol, "2", oks[reqId]) },
          subs |-> RemoveSubscriptionByReqIdOp(subs, reqId)]

\* sendUnsubscribeByReqID
UnsubscribeByReqId(subs, reqId, oks) ==
    IF reqId \notin DOMAIN subs THEN [sends |-> {}, subs |-> subs]
    ELSE [sends |-> { Sent(reqId, subs[reqId].Symbol, "2", oks[reqId]) },
          subs |-> IF oks[reqId] THEN RemoveSubscriptionByReqIdOp(subs, reqId) ELSE subs]

\* handleUnsubscribeRequest reading its first word only.
DispatchFirstWord(parts) ==
    IF Len(parts) < 2 THEN [kind |-> "usage", arg |-> <<>>]
    ELSE IF HasPrefix(parts[2], PrefixMd) THEN [kind |-> "byReqId", arg |-> parts[2]]
    ELSE [kind |-> "bySymbol", arg |-> ToUpper(parts[2])]

\* handleUnsubscribeRequest: which sender is called and with what argument.
\* parts[1] is the command word.
Dispatch(parts) ==
    IF Len(parts) < 2 THEN [kind |-> "usage", arg |-> <<>>]
    ELSE IF Len(parts) >= 3 /\ parts[2] = WordReqidFlag
    THEN [kind |-> "byReqId", arg |-> parts[3]]
    ELSE IF HasPrefix(parts[2], PrefixMd) THEN [kind |-> "byReqId", arg |-> parts[2]]
    ELSE [kind |-> "bySymbol", arg |-> ToUpper(parts[2])]

\* The md command for one symbol after its flags are read:
\* subscriptionType is "" when no subscription flag was given.
MdCommand(typed, subscriptionType, ok) ==
    LET symbol == ToUpper(typed)
        reqId == IdText(nextId)
    IN  /\ nextId <= MaxRequests
        /\ subscriptionType \in {"", "2"} => ok
        /\ IF subscriptionType = ""
           THEN /\ subscriptions' = subscriptions
                /\ nextId' = nextId
                /\ lastCmd' = [lastCmd EXCEPT !.cmd = "md", !.kind = "usage",
                                               !.arg = symbol, !.subType = "",
                                               !.parts = <<>>, !.sends = {}]
           ELSE IF subscriptionType = "2"
           THEN \E oks \in SendOutcomes(subscriptions,
                                        { q \in DOMAIN subscriptions :
                                            subscriptions[q].Symbol = symbol }) :
                    LET r == UnsubscribeBySymbol(subscriptions, symbol, oks)
                    IN  /\ subscriptions' = r.subs
                        /\ nextId' = nextId
                        /\ lastCmd' = [lastCmd EXCEPT !.cmd = "md", !.kind = "bySymbol",
                                                       !.arg = symbol, !.subType = "2",
                                                       !.parts = <<>>, !.sends = r.sends]
           ELSE /\ subscriptions' = SendMarketDataRequest(subscriptions, symbol,
                                                          subscriptionType, reqId, ok)
                /\ nextId' = nextId + 1
                /\ lastCmd' = [cmd |-> "md", kind |-> "request", arg |-> symbol,
                               subType |-> subscriptionType, parts |-> <<>>,
                               sends |-> { Sent(reqId, symbol, subscriptionType, ok) },
                               issued |-> IF subscriptionType = "1"
                                          THEN lastCmd.issued \cup {reqId}
                                          ELSE lastCmd.issued]
        /\ UNCHANGED <<maxSize, trades, updateCount, panicked, lastOp, extractVars, fieldVars, inVars,
                       concVars, heapVars, dbVars>>

\* The unsubscribe command.
UnsubscribeCommand(parts) ==
    LET d == Dispatch(parts)
        affected == IF d.kind = "byReqId" THEN {d.arg}
                    ELSE { q \in DOMAIN subscriptions : subscriptions[q].Symbol = d.arg }
    IN  \E oks \in SendOutcomes(subscriptions, affected) :
            LET r == IF d.kind = "byReqId"
                     THEN UnsubscribeByReqId(subscriptions, d.arg, oks)
                     ELSE IF d.kind = "bySymbol"
                     THEN UnsubscribeBySymbol(subscriptions, d.arg, oks)
                     ELSE [sends |-> {}, subs |-> subscriptions]
            IN  /\ subscriptions' = r.subs
                /\ lastCmd' = [lastCmd EXCEPT !.cmd = "unsubscribe", !.kind = d.kind,
                                               !.arg = d.arg, !.subType = "2",
                                               !.parts = parts, !.sends = r.sends]
                /\ UNCHANGED <<maxSize, trades, updateCount, panicked, lastOp,
                               extractVars, fieldVars, inVars, concVars, heapVars, dbVars, nextId>>

InitApp ==
    /\ maxSize = MaxCap
    /\ trades = <<>>
    /\ subscriptions = <<>>
    /\ updateCount = 0
    /\ panicked = FALSE
    /\ lastOp = NoOp
    /\ msg = NoMsg
    /\ extracted = <<>>
    /\ scanned = FALSE
    /\ xpc = "idle"
    /\ ConcIdle
    /\ HeapIdle
    /\ AppIdle
    /\ DbIdle
    /\ FieldIdle
    /\ InIdle

NextApp ==
    \/ \E typed \in TypedSymbols, t \in {"", "0", "1", "2"}, ok \in BOOLEAN :
          MdCommand(typed, t, ok)
    \/ \E parts \in UnsubscribeLines : UnsubscribeCommand(parts)

SpecApp == InitApp /\ [][NextApp]_vars

\* ------------------------------------------------------------------------
\* The md command line and the request message
\* ------------------------------------------------------------------------
\* The flags of the md command are words compared as a whole; the request
\* message is its header fields, its body fields and its repeating groups,
\* each group the sequence of its elements.  The sending time of the header
\* is a reading of the clock and is left out.

\* The longest list of entry types and of symbols of a request.
MaxGroup == 2

\* BuildMarketDataRequest setting the update type in every request.
BuildMarketDataRequestAlwaysUpdateType(mdReqId, symbols, subscriptionRequestType, marketDepth, senderCompId, targetCompId, mdEntryTypes) ==
    [header |-> (8 :> "FIXT.1.1") @@ (35 :> "V") @@ (49 :> senderCompId)
                @@ (56 :> targetCompId),
     body |-> (262 :> mdReqId) @@ (263 :> subscriptionRequestType)
              @@ (264 :> marketDepth) @@ (265 :> "1"),
     groups |-> (267 :> [i \in 1..Len(mdEntryTypes) |-> (269 :> mdEntryTypes[i])])
                @@ (146 :> [i \in 1..Len(symbols) |-> (55 :> symbols[i])])]

\* Lines 52-96 of the builder.
BuildMarketDataRequest(mdReqId, symbols, subscriptionRequestType, marketDepth, senderCompId, targetCompId, mdEntryTypes) ==
    [header |-> (8 :> "FIXT.1.1") @@ (35 :> "V") @@ (49 :> senderCompId)
                @@ (56 :> targetCompId),
     body |-> (262 :> mdReqId) @@ (263 :> subscriptionRequestType)
              @@ (264 :> marketDepth)
              @@ (IF subscriptionRequestType = "1" THEN (265 :> "1") ELSE <<>>),
     groups |-> (267 :> [i \in 1..Len(mdEntryTypes) |-> (269 :> mdEntryTypes[i])])
                @@ (146 :> [i \in 1..Len(symbols) |-> (55 :> symbols[i])])]

\* The arguments of a call of BuildMarketDataRequest.
BuildCalls ==
    [ mdReqId : { IdText(1) }, symbols : SeqsUpTo({ <<"B", "T", "C">>, <<"E", "T", "H">> }, MaxGroup),
      subscriptionRequestType : {"0", "1", "2"}, marketDepth : {"0", "5"},
      mdEntryTypes : SeqsUpTo({"0", "2"}, MaxGroup), pc : {0} ]

\* A call of BuildMarketDataRequest: the message it returns.
BuildRequest ==
    /\ pending.pc = 0
    /\ wire' = { BuildMarketDataRequest(pending.mdReqId, pending.symbols,
                                        pending.subscriptionRequestType,
                                        pending.marketDepth, "CLIENT", "COIN",
                                        pending.mdEntryTypes) }
    /\ pending' = [pending EXCEPT !.pc = 1]
    /\ UNCHANGED <<storeVars, extractVars, fieldVars, concVars, heapVars, appVars, dbVars,
                   removed, hasDb, inb>>

InitBuild ==
    /\ maxSize = MaxCap
    /\ trades = <<>>
    /\ subscriptions = <<>>
    /\ updateCount = 0
    /\ panicked = FALSE
    /\ lastOp = NoOp
    /\ msg = NoMsg
    /\ extracted = <<>>
    /\ scanned = FALSE
    /\ xpc = "idle"
    /\ ConcIdle
    /\ HeapIdle
    /\ AppIdle
    /\ DbIdle
    /\ FieldIdle
    /\ pending \in BuildCalls
    /\ wire = {}
    /\ removed = {}
    /\ hasDb = TRUE
    /\ inb = NoInbound

NextBuild == BuildRequest

SpecBuild == InitBuild /\ [][NextBuild]_vars

\* Lines 735-766 of the console: the loop over the flag arguments, i the
\* index of the argument looked at.
RECURSIVE ParseMdFlagsLoop(_, _, _)
ParseMdFlagsLoop(args, i, flags) ==
    IF i > Len(args) THEN flags
    ELSE LET arg == args[i]
         IN  IF arg = "--snapshot"
             THEN ParseMdFlagsLoop(args, i + 1, [flags EXCEPT !.subscriptionType = "0"])
             ELSE IF arg = "--subscribe"
             THEN ParseMdFlagsLoop(args, i + 1, [flags EXCEPT !.subscriptionType = "1"])
             ELSE IF arg = "--unsubscribe"
             THEN ParseMdFlagsLoop(args, i + 1, [flags EXCEPT !.subscriptionType = "2"])
             ELSE IF arg = "--depth"
             THEN IF i + 1 <= Len(args)
                  THEN ParseMdFlagsLoop(args, i + 2, [flags EXCEPT !.marketDepth = args[i + 1]])
                  ELSE ParseMdFlagsLoop(args, i + 1, flags)
             ELSE IF arg = "--trades"
             THEN ParseMdFlagsLoop(args, i + 1, [flags EXCEPT !.entryTypes = Append(@, "2")])
             ELSE IF arg = "--o"
             THEN ParseMdFlagsLoop(args, i + 1, [flags EXCEPT !.entryTypes = Append(@, "4")])
             ELSE IF arg = "--c"
             THEN ParseMdFlagsLoop(args, i + 1, [flags EXCEPT !.entryTypes = Append(@, "5")])
             ELSE IF arg = "--h"
             THEN ParseMdFlagsLoop(args, i + 1, [flags EXCEPT !.entryTypes = Append(@, "7")])
             ELSE IF arg = "--l"
             THEN ParseMdFlagsLoop(args, i + 1, [flags EXCEPT !.entryTypes = Append(@, "8")])
             ELSE IF arg = "--v"
             THEN ParseMdFlagsLoop(args, i + 1, [flags EXCEPT !.entryTypes = Append(@, "B")])
             ELSE ParseMdFlagsLoop(args, i + 1, flags)

parseMdFlags(args) ==
    ParseMdFlagsLoop(args, 1, [subscriptionType |-> "", marketDepth |-> "",
                               entryTypes |-> <<>>])

\* Lines 703-719 of the console: the depth and the entry types of the
\* request, the depth given its default first.
MdRequestOptions(flags) ==
    LET marketDepth == IF flags.marketDepth = "" THEN "0" ELSE flags.marketDepth
    IN  [marketDepth |-> marketDepth,
         entryTypes |-> IF Len(flags.entryTypes) = 0
                        THEN IF marketDepth # "" THEN <<"0", "1">> ELSE <<"2">>
                        ELSE flags.entryTypes]

\* The flag arguments of an md command line: a subscription flag or none, a
\* depth flag with or without its value or none, and entry-type flags.
MdFlagLines ==
    { sub \o dep \o ent :
        sub \in { <<>>, <<"--snapshot">>, <<"--subscribe">>, <<"--unsubscribe">> },
        dep \in { <<>>, <<"--depth", "5">>, <<"--depth">> },
        ent \in SeqsUpTo({"--trades", "--o"}, MaxGroup) }

\* handleDirectMdRequest for a line of one symbol followed by flags, with
\* the request handed to sendMarketDataRequestWithOptions.
HandleDirectMdRequest(typed, flagArgs, ok) ==
    LET symbol == ToUpper(typed)
        flags == parseMdFlags(flagArgs)
        opts == MdRequestOptions(flags)
        reqId == IdText(nextId)
    IN  /\ nextId <= MaxRequests
        /\ flags.subscriptionType \in {"", "2"} => ok
        /\ IF flags.subscriptionType = ""
           THEN /\ subscriptions' = subscriptions
                /\ nextId' = nextId
                /\ lastCmd' = [cmd |-> "md", kind |-> "usage", arg |-> symbol,
                               subType |-> "", parts |-> flagArgs, sends |-> {},
                               issued |-> lastCmd.issued]
           ELSE IF flags.subscriptionType = "2"
           THEN \E oks \in SendOutcomes(subscriptions,
                                        { q \in DOMAIN subscriptions :
                                            subscriptions[q].Symbol = symbol }) :
                    LET r == UnsubscribeBySymbol(subscriptions, symbol, oks)
                    IN  /\ subscriptions' = r.subs
                        /\ nextId' = nextId
                        /\ lastCmd' = [cmd |-> "md", kind |-> "bySymbol", arg |-> symbol,
                                       subType |-> "2", parts |-> flagArgs,
                                       sends |-> r.sends, issued |-> lastCmd.issued]
           ELSE /\ subscriptions' = SendMarketDataRequest(subscriptions, symbol,
                                                          flags.subscriptionType, reqId, ok)
                /\ nextId' = nextId + 1
                /\ lastCmd' = [cmd |-> "md", kind |-> "request", arg |-> symbol,
                               subType |-> flags.subscriptionType, parts |-> flagArgs,
                               sends |-> { [ok |-> ok,
                                            msg |-> BuildMarketDataRequest(
                                                        reqId, <<symbol>>,
                                                        flags.subscriptionType,
                                                        opts.marketDepth, "CLIENT", "COIN",
                                                        opts.entryTypes)] },
                               issued |-> IF flags.subscriptionType = "1"
                                          THEN lastCmd.issued \cup {reqId}
                                          ELSE lastCmd.issued]
        /\ UNCHANGED <<maxSize, trades, updateCount, panicked, lastOp, extractVars,
                       fieldVars, inVars, concVars, heapVars, dbVars>>

InitMd ==
    /\ maxSize = MaxCap
    /\ trades = <<>>
    /\ subscriptions = <<>>
    /\ updateCount = 0
    /\ panicked = FALSE
    /\ lastOp = NoOp
    /\ msg = NoMsg
    /\ extracted = <<>>
    /\ scanned = FALSE
    /\ xpc = "idle"
    /\ ConcIdle
    /\ HeapIdle
    /\ AppIdle
    /\ DbIdle
    /\ FieldIdle
    /\ InIdle

NextMd ==
    \E typed \in { <<"b", "t", "c">> }, flagArgs \in MdFlagLines, ok \in BOOLEAN :
        HandleDirectMdRequest(typed, flagArgs, ok)

SpecMd == InitMd /\ [][NextMd]_vars

\* ------------------------------------------------------------------------
\* Requests and inbound messages
\* ------------------------------------------------------------------------
\* The console goroutine sends requests and unsubscribes while the session
\* goroutine of the transport calls FromApp for every inbound application
\* message.  A request is two steps for the other goroutine to see: the
\* registration in the store and the hand-over to the transport; FromApp for
\* a data message is the AddTrades call followed by the steps of
\* storeTradesToDatabase.  The server answers only requests the transport
\* accepted, with their request id and symbol.

\* The request ids in the order of the clock readings they are made from.
ReqIdSeq == <<"r1", "r2">>

\* The order of the two steps of sendMarketDataRequestWithOptions, handing
\* the request over before registering it.
RequestStepsSendFirst == <<"send", "register">>

\* The order of the two steps of sendMarketDataRequestWithOptions.
RequestSteps == <<"register", "send">>

\* One step of a request: st is [subs, wire, removed].
RequestStep(name, st, req, ok) ==
    IF name = "register"
    THEN [st EXCEPT !.subs = RegisterRequest(st.subs, req.symbol, req.subType, req.reqId)]
    ELSE IF ok
    THEN [st EXCEPT !.wire = @ \cup { [reqId |-> req.reqId, symbol |-> req.symbol,
                                       subType |-> req.subType] }]
    ELSE LET left == RemoveSubscriptionOp(st.subs, req.symbol)
         IN  [st EXCEPT !.subs = left,
                        !.removed = @ \cup (DOMAIN st.subs \ DOMAIN left)]

\* The md command for symbol with --snapshot ("0") or --subscribe ("1"), up
\* to and including the first of its two steps.
CmdRequest(symbol, subscriptionType, ok) ==
    /\ pending = NoReq
    /\ nextId <= Len(ReqIdSeq)
    /\ RequestSteps[1] = "register" => ok
    /\ LET req == [reqId |-> ReqIdSeq[nextId], symbol |-> symbol,
                   subType |-> subscriptionType, pc |-> 2]
           st == RequestStep(RequestSteps[1],
                             [subs |-> subscriptions, wire |-> wire, removed |-> removed],
                             req, ok)
       IN  /\ subscriptions' = st.subs
           /\ wire' = st.wire
           /\ removed' = st.removed
           /\ pending' = req
    /\ nextId' = nextId + 1
    /\ UNCHANGED <<maxSize, trades, updateCount, panicked, lastOp, extractVars, fieldVars,
                   concVars, heapVars, lastCmd, dbVars, hasDb, inb>>

\* The second step of the request.
CmdFinish(ok) ==
    /\ pending # NoReq
    /\ RequestSteps[pending.pc] = "register" => ok
    /\ LET st == RequestStep(RequestSteps[pending.pc],
                             [subs |-> subscriptions, wire |-> wire, removed |-> removed],
                             pending, ok)
       IN  /\ subscriptions' = st.subs
           /\ wire' = st.wire
           /\ removed' = st.removed
    /\ pending' = NoReq
    /\ UNCHANGED <<maxSize, trades, updateCount, panicked, lastOp, extractVars, fieldVars,
                   concVars, heapVars, appVars, dbVars, hasDb, inb>>

\* The unsubscribe command for a registered request id.  The look-up, the
\* send and the removal are taken as one step: a step of the session
\* goroutine between them has the same outcome as the same step before the
\* command.
CmdUnsubscribe(reqId, ok) ==
    /\ pending = NoReq
    /\ reqId \in DOMAIN subscriptions
    /\ LET r == UnsubscribeByReqId(subscriptions, reqId,
                                   [q \in DOMAIN subscriptions |-> ok])
       IN  /\ subscriptions' = r.subs
           /\ removed' = removed \cup (DOMAIN subscriptions \ DOMAIN r.subs)
    /\ UNCHANGED <<maxSize, trades, updateCount, panicked, lastOp, extractVars, fieldVars,
                   concVars, heapVars, appVars, dbVars, pending, wire, hasDb, inb>>

\* The bodies of the data messages: one trade, a trade and an entry of an
\* unknown kind.
InboundBodies ==
    { << [tag |-> <<"2", "6", "9">>, val |-> <<"2">>],
         [tag |-> <<"2", "7", "0">>, val |-> <<"5">>] >>,
      << [tag |-> <<"2", "6", "9">>, val |-> <<"2">>],
         [tag |-> <<"2", "6", "9">>, val |-> <<"Z">>] >> }

\* The data messages a server may send.
DataMessages ==
    [ msgType : {"W", "X"}, symbol : Symbols, mdReqId : ReqIds, seqNum : {"7"},
      noMdEntries : { <<"2">> }, fields : InboundBodies ]

\* The server answers an accepted request with its request id and symbol.
AnswersRequest(m, w) == m.symbol = w.symbol /\ m.mdReqId = w.reqId

\* FromApp returning a reject when the persistence failed.
FromAppResultPropagate(outcome) ==
    IF outcome \in {"beginFailed", "insertFailed", "commitFailed"} THEN "reject" ELSE "nil"

\* FromApp: the value returned, whatever the handler did.
FromAppResult(outcome) == "nil"

\* handleMarketDataReject ignoring the reject.
HandleMarketDataRejectIgnored(subs, mdReqId) == subs

\* handleMarketDataReject: the registry after the call.
HandleMarketDataReject(subs, mdReqId) == RemoveSubscriptionByReqIdOp(subs, mdReqId)

\* FromApp for a data message, up to the return of AddTrades.
InData(m) ==
    /\ xpc = "idle"
    /\ ~panicked
    /\ inb.msgs < MaxMessages
    /\ \E w \in wire : AnswersRequest(m, w)
    /\ LET res == extractTradesImproved(m, m.symbol, m.mdReqId, m.msgType = "W", m.seqNum)
           st == AppendLoop([trades |-> trades, updateCount |-> updateCount,
                             panicked |-> FALSE],
                            maxSize, res.trades, 1, m.symbol, m.msgType = "W", m.mdReqId)
       IN  /\ updateCount + Len(res.trades) <= MaxAppended
           /\ extracted' = res.trades
           /\ scanned' = res.scanned
           /\ trades' = st.trades
           /\ updateCount' = st.updateCount
           /\ panicked' = st.panicked
           /\ subscriptions' = AddTradesSubs(subscriptions, Len(res.trades),
                                             m.msgType = "W", m.mdReqId)
    /\ msg' = m
    /\ xpc' = "stored"
    /\ inb' = [kind |-> "data", rejected |-> "", ret |-> "none", msgs |-> inb.msgs + 1,
               outcome |-> "none"]
    /\ UNCHANGED <<maxSize, lastOp, fieldVars, concVars, heapVars, appVars, dbVars,
                   pending, wire, removed, hasDb>>

\* The outcomes of storeTradesToDatabase: no database, BeginTransaction
\* failed, an insert failed, Commit failed, or the rows were committed.
PersistOutcomes(dbPresent) ==
    IF dbPresent THEN {"beginFailed", "insertFailed", "commitFailed", "committed"}
    ELSE {"absent"}

\* storeTradesToDatabase as one step: the rows of the database after it.
StoreTradesToDatabase(rows, batch, msgNo, outcome) ==
    IF outcome = "committed"
    THEN rows \o SelectSeq([i \in 1..Len(batch) |-> RowOf(batch[i], i, msgNo)],
                           LAMBDA r : r.table # "")
    ELSE rows

\* storeTradesToDatabase for the records of the message and the return of
\* FromApp; the message and the records were locals of the handler.
InPersist(outcome) ==
    /\ xpc = "stored"
    /\ outcome \in PersistOutcomes(hasDb)
    /\ db' = StoreTradesToDatabase(db, extracted, inb.msgs, outcome)
    /\ xpc' = "idle"
    /\ msg' = NoMsg
    /\ extracted' = <<>>
    /\ scanned' = FALSE
    /\ inb' = [inb EXCEPT !.ret = FromAppResult(outcome), !.outcome = outcome]
    /\ UNCHANGED <<storeVars, fieldVars, concVars, heapVars, appVars, tx, ppc, pcall, plog,
                   pending, wire, removed, hasDb>>

\* FromApp for a Market Data Request Reject (type Y) of an accepted request.
InReject(mdReqId) ==
    /\ xpc = "idle"
    /\ \E w \in wire : w.reqId = mdReqId
    /\ subscriptions' = HandleMarketDataReject(subscriptions, mdReqId)
    /\ removed' = removed \cup (DOMAIN subscriptions \ DOMAIN subscriptions')
    /\ inb' = [inb EXCEPT !.kind = "reject", !.rejected = mdReqId,
                          !.ret = FromAppResult("none")]
    /\ UNCHANGED <<maxSize, trades, updateCount, panicked, lastOp, extractVars,
                   fieldVars, concVars, heapVars, appVars, dbVars, pending, wire, hasDb>>

\* FromApp for an application message of another type: it is logged.
InOther ==
    /\ xpc = "idle"
    /\ inb' = [inb EXCEPT !.ret = FromAppResult("none")]
    /\ UNCHANGED <<storeVars, extractVars, fieldVars, concVars, heapVars,
                   appVars, dbVars, pending, wire, removed, hasDb>>

InitInbound ==
    /\ maxSize = MaxCap
    /\ trades = <<>>
    /\ subscriptions = <<>>
    /\ updateCount = 0
    /\ panicked = FALSE
    /\ lastOp = NoOp
    /\ msg = NoMsg
    /\ extracted = <<>>
    /\ scanned = FALSE
    /\ xpc = "idle"
    /\ ConcIdle
    /\ HeapIdle
    /\ AppIdle
    /\ DbIdle
    /\ FieldIdle
    /\ pending = NoReq
    /\ wire = {}
    /\ removed = {}
    /\ hasDb = FALSE
    /\ inb = NoInbound

NextInbound ==
    \/ \E s \in Symbols, t \in {"0", "1"}, ok \in BOOLEAN : CmdRequest(s, t, ok)
    \/ \E ok \in BOOLEAN : CmdFinish(ok)
    \/ \E r \in ReqIds, ok \in BOOLEAN : CmdUnsubscribe(r, ok)
    \/ \E m \in DataMessages : InData(m)
    \/ \E o \in PersistOutcomes(FALSE) : InPersist(o)
    \/ \E r \in ReqIds : InReject(r)
    \/ InOther

\* The console and the session goroutine of a client started without a
\* database.
SpecInbound == InitInbound /\ [][NextInbound]_vars

\* The session goroutine alone, with or without a database, after the
\* transport accepted a subscription for each of the two symbols.
InitIngest ==
    /\ maxSize = MaxCap
    /\ trades = <<>>
    /\ subscriptions = [r \in ReqIds |->
                          NewSubscription((CHOOSE st \in Streams : st.reqId = r).symbol,
                                          "1", r)]
    /\ updateCount = 0
    /\ panicked = FALSE
    /\ lastOp = NoOp
    /\ msg = NoMsg
    /\ extracted = <<>>
    /\ scanned = FALSE
    /\ xpc = "idle"
    /\ ConcIdle
    /\ HeapIdle
    /\ nextId = Len(ReqIdSeq) + 1
    /\ lastCmd = NoCmd
    /\ DbIdle
    /\ FieldIdle
    /\ pending = NoReq
    /\ wire = { [reqId |-> st.reqId, symbol |-> st.symbol, subType |-> "1"] : st \in Streams }
    /\ removed = {}
    /\ hasDb \in BOOLEAN
    /\ inb = NoInbound

NextIngest ==
    \/ \E m \in DataMessages : InData(m)
    \/ \E o \in PersistOutcomes(TRUE) \cup PersistOutcomes(FALSE) : InPersist(o)
    \/ \E r \in ReqIds : InReject(r)
    \/ InOther

SpecIngest == InitIngest /\ [][NextIngest]_vars

\* ------------------------------------------------------------------------
\* Properties of the store
\* ------------------------------------------------------------------------

\* C1: in a store of capacity C >= 1 the buffer length is min(T, C), T the
\* number of records ever appended, and the buffer holds the min(T, C) most
\* recently appended records in append order (Ord of the i-th buffered record
\* is T - length + i), whatever their symbols; no AddTrades call panics.
C1_BufferHoldsMostRecent ==
    maxSize >= 1 =>
        /\ ~panicked
        /\ Len(trades) = Min(updateCount, maxSize)
        /\ \A i \in 1..Len(trades) : trades[i].Ord = updateCount - Len(trades) + i

\* A full buffer of capacity 2 after three appends, the two survivors of
\* different symbols.
C1_Witness ==
    /\ maxSize = 2
    /\ updateCount = 3
    /\ Len(trades) = 2
    /\ trades[1].Symbol # trades[2].Symbol
    /\ trades[1].Ord = 2

\* C2: an AddTrades call with request id r and a batch of n records adds
\* exactly n to TotalUpdates of the subscription registered under r, leaves
\* its identity fields and every other subscription as they were, and creates
\* no subscription; with no subscription under r the registry is unchanged.
C2_Step ==
    lastOp'.op = "AddTrades" =>
        LET r == lastOp'.reqId
            n == lastOp'.n
        IN  /\ DOMAIN subscriptions' = DOMAIN subscriptions
            /\ \A q \in DOMAIN subscriptions :
                  q # r => subscriptions'[q] = subscriptions[q]
            /\ r \in DOMAIN subscriptions =>
                  /\ subscriptions'[r].TotalUpdates = subscriptions[r].TotalUpdates + n
                  /\ subscriptions'[r].Symbol = subscriptions[r].Symbol
                  /\ subscriptions'[r].MdReqId = subscriptions[r].MdReqId
                  /\ subscriptions'[r].SubscriptionType = subscriptions[r].SubscriptionType
                  /\ subscriptions'[r].Active = subscriptions[r].Active

C2_AddTradesCountsRecords == [][C2_Step]_vars

\* A subscription that has counted three records, a snapshot among them,
\* beside another subscription that counted none, right after an AddTrades
\* call of a batch of two for the first.
C2_Witness ==
    /\ lastOp.op = "AddTrades"
    /\ lastOp.n = 2
    /\ DOMAIN subscriptions = ReqIds
    /\ subscriptions[lastOp.reqId].TotalUpdates = 3
    /\ subscriptions[lastOp.reqId].SnapshotReceived
    /\ \A q \in ReqIds \ {lastOp.reqId} : subscriptions[q].TotalUpdates = 0

\* The symbols and limits GetRecentTrades is asked with.
QuerySymbols == Symbols \cup {"XRP-USD"}
QueryLimits == (0 - 1)..(MaxCap + 1)

MatchingTrades(buf, symbol) == SelectSeq(buf, LAMBDA t : t.Symbol = symbol)

\* C3: GetRecentTrades(s, n) returns the min(n, k) most recently appended
\* buffered records of symbol s, k the number of buffered records of s,
\* oldest first; so at most n records, all of symbol s; none for n <= 0.
C3_RecentTrades ==
    \A s \in QuerySymbols, n \in QueryLimits :
        LET recent == GetRecentTrades(trades, s, n)
            matching == MatchingTrades(trades, s)
            k == Len(matching)
            m == IF n <= 0 THEN 0 ELSE Min(n, k)
        IN  /\ Len(recent) = m
            /\ Len(recent) <= (IF n <= 0 THEN 0 ELSE n)
            /\ \A i \in 1..Len(recent) : recent[i].Symbol = s
            /\ recent = SubSeq(matching, k - m + 1, k)

\* Two buffered records of one symbol: limit 1 returns the newer one, limit
\* 2 both, oldest first.
C3_Witness ==
    /\ Len(trades) = 2
    /\ trades[1].Symbol = trades[2].Symbol
    /\ trades[1].Ord < trades[2].Ord
    /\ GetRecentTrades(trades, trades[1].Symbol, 1) = <<trades[2]>>
    /\ GetRecentTrades(trades, trades[1].Symbol, 2) = <<trades[1], trades[2]>>

\* C9: RemoveSubscription(symbol) removes every subscription of that symbol,
\* leaves every other subscription as it was, and leaves the history buffer
\* unchanged.
C9_Step ==
    lastOp'.op = "RemoveSubscription" =>
        LET s == lastOp'.symbol
        IN  /\ DOMAIN subscriptions' =
                  { r \in DOMAIN subscriptions : subscriptions[r].Symbol # s }
            /\ \A r \in DOMAIN subscriptions' : subscriptions'[r] = subscriptions[r]
            /\ trades' = trades
            /\ updateCount' = updateCount
            /\ maxSize' = maxSize

C9_RemoveSubscriptionBySymbol == [][C9_Step]_vars

\* A RemoveSubscription call that matched one subscription and left the
\* subscription of the other symbol, with records in the buffer.
C9_Witness ==
    /\ lastOp.op = "RemoveSubscription"
    /\ lastOp.n = 1
    /\ Cardinality(DOMAIN subscriptions) = 1
    /\ \A r \in DOMAIN subscriptions : subscriptions[r].Symbol # lastOp.symbol
    /\ Len(trades) > 0

\* RemoveSubscriptionByReqId(r): the subscription under r is gone, every
\* other subscription and the history buffer are as they were; nothing
\* changes when no subscription is registered under r.
C10_Step ==
    lastOp'.op = "RemoveSubscriptionByReqId" =>
        LET r == lastOp'.reqId
        IN  /\ DOMAIN subscriptions' = DOMAIN subscriptions \ {r}
            /\ \A q \in DOMAIN subscriptions' : subscriptions'[q] = subscriptions[q]
            /\ r \notin DOMAIN subscriptions => subscriptions' = subscriptions
            /\ trades' = trades
            /\ updateCount' = updateCount
            /\ maxSize' = maxSize
            /\ panicked' = panicked

\* AddSubscription followed by RemoveSubscriptionByReqId of the same id, from
\* the registry subs.
AddThenRemove(subs, symbol, subscriptionType, reqId) ==
    RemoveSubscriptionByReqIdOp(AddSubscriptionOp(subs, symbol, subscriptionType, reqId), reqId)

\* C10 as stated: RemoveSubscriptionByReqId deletes exactly the subscription
\* under r, is a no-op when there is none, and AddSubscription followed by
\* RemoveSubscriptionByReqId of the same id leaves the registry as before
\* the add.
C10_Original ==
    /\ [][C10_Step]_vars
    /\ [](\A s \in Symbols, t \in SubTypes, r \in ReqIds :
            AddThenRemove(subscriptions, s, t, r) = subscriptions)

\* C10 amended: as C10, the round trip only for an id under which no
\* subscription was registered before the add; for a registered id the round
\* trip leaves the registry without the subscription that was registered.
C10_RemoveByReqId ==
    /\ [][C10_Step]_vars
    /\ [](\A s \in Symbols, t \in SubTypes, r \in ReqIds :
            /\ r \notin DOMAIN subscriptions =>
                  AddThenRemove(subscriptions, s, t, r) = subscriptions
            /\ r \in DOMAIN subscriptions =>
                  /\ DOMAIN AddThenRemove(subscriptions, s, t, r) = DOMAIN subscriptions \ {r}
                  /\ \A q \in DOMAIN subscriptions \ {r} :
                        AddThenRemove(subscriptions, s, t, r)[q] = subscriptions[q])

\* A RemoveSubscriptionByReqId call that found its subscription and left the
\* other one, of the same symbol, with records in the buffer.
C10_Witness ==
    /\ lastOp.op = "RemoveSubscriptionByReqId"
    /\ lastOp.n = 1
    /\ lastOp.reqId \notin DOMAIN subscriptions
    /\ Cardinality(DOMAIN subscriptions) = 1
    /\ Len(trades) > 0

\* C11: across every step that keeps a subscription registered under a
\* request id, other than an AddSubscription call for that id, its
\* TotalUpdates does not decrease and its SnapshotReceived, once true, stays
\* true.
C11_Step ==
    \A r \in DOMAIN subscriptions \cap DOMAIN subscriptions' :
        ~(lastOp'.op = "AddSubscription" /\ lastOp'.reqId = r) =>
            /\ subscriptions'[r].TotalUpdates >= subscriptions[r].TotalUpdates
            /\ subscriptions[r].SnapshotReceived => subscriptions'[r].SnapshotReceived

C11_CountersMonotonic == [][C11_Step]_vars

\* A subscription that received a snapshot record and then an incremental
\* batch of two: the newest buffered record is an update of its request id,
\* the flag is still set and the counter stands at three.
C11_Witness ==
    /\ lastOp.op = "AddTrades"
    /\ lastOp.n = 2
    /\ lastOp.reqId \in DOMAIN subscriptions
    /\ subscriptions[lastOp.reqId].SnapshotReceived
    /\ subscriptions[lastOp.reqId].TotalUpdates = 3
    /\ Len(trades) > 0
    /\ trades[Len(trades)].MdReqId = lastOp.reqId
    /\ trades[Len(trades)].IsUpdate

\* The number of buffered records of request id r.
BufferedFor(buf, r) == Len(SelectSeq(buf, LAMBDA t : t.MdReqId = r))

\* C12 as stated: the counter update and the history append of an AddTrades
\* call are two separate critical sections, so between the two steps the
\* caller holds no lock (the point at which a reader sees the effect of one
\* step without the other).
C12_Original ==
    \A w \in Writers :
        (wpc[w] = "loop" /\ wcall[w].i = 1 /\ Len(wcall[w].batch) >= 1) =>
            mu.writer # w

\* C12 amended: AddTrades holds the one lock of the store from before the
\* counter update until after the last append, so whenever a reader holds
\* the lock TotalUpdates of each subscription equals the number of records
\* appended for its request id: no reader observes a record of a batch
\* whose subscription counter is not yet incremented, nor the reverse.
C12_AtomicIngest ==
    /\ \A w \in Writers : wpc[w] # "idle" => mu.writer = w
    /\ mu.readers # {} =>
          \A r \in ReqIds :
              /\ subscriptions[r].TotalUpdates = hist.appended[r]
              /\ BufferedFor(trades, r) <= subscriptions[r].TotalUpdates

\* A reader holding the lock has read a record of a batch of two whose
\* subscription counter stands at two, after the AddTrades call returned.
C12_Witness ==
    /\ lastOp.op = "AddTrades"
    /\ lastOp.n = 2
    /\ \E g \in Readers :
          /\ rpc[g] = "read"
          /\ g \in mu.readers
          /\ Len(rres[g]) >= 1
          /\ rres[g][1].MdReqId = lastOp.reqId
          /\ subscriptions[lastOp.reqId].TotalUpdates = 2
          /\ hist.appended[lastOp.reqId] = 2

\* C18: with writers inside AddTrades concurrently with readers inside
\* GetRecentTrades no record is lost: once every call has returned, each
\* record handed in was appended, the buffer holds min(total, capacity)
\* records, all of them when the total does not exceed the capacity; and no
\* result of a reader holds more records than the capacity.
C18_NoRecordLost ==
    /\ \A g \in Readers : Len(rres[g]) <= maxSize
    /\ Len(trades) <= maxSize
    /\ (\A w \in Writers : wpc[w] = "idle") =>
          /\ updateCount = SumOver(hist.submitted)
          /\ hist.appended = hist.submitted
          /\ Len(trades) = Min(SumOver(hist.submitted), maxSize)
          /\ SumOver(hist.submitted) <= maxSize =>
                \A r \in ReqIds : BufferedFor(trades, r) = hist.submitted[r]

\* Two calls for different request ids have returned, their two records
\* fill a buffer of capacity two, while a reader holds a result read when
\* only the first record was in the buffer.
C18_Witness ==
    /\ \A w \in Writers : wpc[w] = "idle"
    /\ maxSize = 2
    /\ SumOver(hist.submitted) = 2
    /\ Len(trades) = 2
    /\ trades[1].MdReqId # trades[2].MdReqId
    /\ \E g \in Readers : rres[g] = <<trades[1]>>

\* C13: what GetSubscriptionStatus, GetSubscriptionsBySymbol and
\* GetAllTrades returned has the contents it had when it was returned (or
\* after the caller's own writes) whatever store calls came later, and the
\* contents of the registry and of the buffer are those the store calls
\* produced whatever the caller wrote into a returned Subscription or record.
C13_ValueCopies ==
    /\ RetView(heap, arrays, ret) = retVal
    /\ PtrView(heap, subPtr) = subscriptions
    /\ SliceView(arrays, tslice) = trades
    /\ RetAddrs(ret) \cap { subPtr[q] : q \in DOMAIN subPtr } = {}
    /\ RetArrays(ret) \cap { tslice.arr } = {}

\* A caller holds the status of a subscription taken before any record
\* arrived and has cleared Active in it; after a later AddTrades the store
\* has the subscription active with one update counted, the value of the
\* caller still has none.
C13_Witness ==
    /\ ret.kind = "status"
    /\ \E r \in DOMAIN ret.ptrs \cap DOMAIN subscriptions :
          /\ ~heap[ret.ptrs[r]].Active
          /\ heap[ret.ptrs[r]].TotalUpdates = 0
          /\ subscriptions[r].Active
          /\ subscriptions[r].TotalUpdates = 1

\* The indexes of the records of a batch a row is inserted for.
Persistable(batch) == SelectSeq([i \in 1..Len(batch) |-> i],
                                LAMBDA i : TableOf(batch[i].EntryType) # "")

IsPrefix(p, q) == Len(p) <= Len(q) /\ SubSeq(q, 1, Len(p)) = p

\* C14: the rows of one message are committed all or none: after the call
\* the database holds, beyond what it held before, either one row per
\* persistable record in order (begin, every insert and commit succeeded)
\* or nothing; while the transaction is open the database is as before;
\* the inserts attempted are a prefix of the persistable records ending
\* with the failing one, each attempted once, and BeginTransaction is
\* called once per message.
C14_AllOrNothing ==
    LET p == Persistable(pcall.batch)
        added == SubSeq(db, Len(plog.before) + 1, Len(db))
    IN  /\ IsPrefix(plog.before, db)
        /\ ppc = "begun" => db = plog.before
        /\ ppc # "idle" =>
              /\ plog.begins = 1
              /\ IsPrefix(plog.attempted, p)
        /\ ppc = "done" =>
              /\ tx = <<>>
              /\ plog.outcome \in {"committed", "beginFailed", "insertFailed", "commitFailed"}
              /\ plog.outcome = "committed" =>
                    /\ plog.attempted = p
                    /\ added = [k \in 1..Len(p) |->
                                  RowOf(pcall.batch[p[k]], p[k], plog.msgs)]
              /\ plog.outcome # "committed" => db = plog.before
              /\ plog.outcome = "beginFailed" => plog.attempted = <<>>
              /\ plog.outcome = "commitFailed" => plog.attempted = p

\* The second message holds two persistable records; the insert of the
\* first failed, the second was not attempted, and the database holds the
\* rows of the first message only.
C14_Witness ==
    /\ ppc = "done"
    /\ plog.msgs = 2
    /\ plog.outcome = "insertFailed"
    /\ Len(Persistable(pcall.batch)) = 2
    /\ plog.attempted = <<1>>
    /\ db # <<>>
    /\ db = plog.before

\* C15: after any sequence of commands every registered subscription was
\* registered by a request issued with subscription type "1", under the
\* request id of that request, and has Active = TRUE and SubscriptionType
\* "1"; and a snapshot request (type "0") adds no entry to the registry.
C15_Step ==
    (lastCmd'.cmd = "md" /\ lastCmd'.kind = "request" /\ lastCmd'.subType = "0"
       /\ nextId' = nextId + 1) =>
        DOMAIN subscriptions' \subseteq DOMAIN subscriptions

C15_OnlySubscribeRegistered ==
    /\ [](/\ DOMAIN subscriptions \subseteq lastCmd.issued
          /\ \A r \in DOMAIN subscriptions :
                /\ subscriptions[r].Active
                /\ subscriptions[r].SubscriptionType = "1"
                /\ subscriptions[r].MdReqId = r)
    /\ [][C15_Step]_vars

\* A snapshot request was sent after a Subscribe request: two request ids
\* were used, the registry holds the subscription of the first only.
C15_Witness ==
    /\ lastCmd.cmd = "md"
    /\ lastCmd.kind = "request"
    /\ lastCmd.subType = "0"
    /\ \A m \in lastCmd.sends : m.ok /\ m.reqId = IdText(2)
    /\ DOMAIN subscriptions = { IdText(1) }
    /\ subscriptions[IdText(1)].Symbol = lastCmd.arg

\* C16: a command dispatched to unsubscribe-by-symbol for S hands to the
\* transport one unsubscribe request (type "2") per subscription registered
\* for S, carrying the request id of that subscription; when every send
\* succeeds no subscription of S is left; subscriptions of other symbols
\* are as before.  A command dispatched to unsubscribe-by-request-id sends
\* at most one request, for that id, removes the subscription of that id
\* when the send succeeds, and leaves every other subscription as before.
C16_Step ==
    LET forS == { r \in DOMAIN subscriptions : subscriptions[r].Symbol = lastCmd'.arg }
    IN  /\ (lastCmd' # lastCmd /\ lastCmd'.kind = "bySymbol") =>
              /\ { m.reqId : m \in lastCmd'.sends } = forS
              /\ Cardinality(lastCmd'.sends) = Cardinality(forS)
              /\ \A m \in lastCmd'.sends : m.subType = "2" /\ m.symbol = lastCmd'.arg
              /\ (\A m \in lastCmd'.sends : m.ok) =>
                    \A r \in DOMAIN subscriptions' :
                        subscriptions'[r].Symbol # lastCmd'.arg
              /\ DOMAIN subscriptions' \subseteq DOMAIN subscriptions
              /\ \A r \in DOMAIN subscriptions \ forS :
                    r \in DOMAIN subscriptions' /\ subscriptions'[r] = subscriptions[r]
        /\ (lastCmd' # lastCmd /\ lastCmd'.kind = "byReqId") =>
              /\ { m.reqId : m \in lastCmd'.sends } = DOMAIN subscriptions \cap {lastCmd'.arg}
              /\ \A m \in lastCmd'.sends :
                    /\ m.subType = "2"
                    /\ m.symbol = subscriptions[m.reqId].Symbol
                    /\ m.ok => m.reqId \notin DOMAIN subscriptions'
              /\ DOMAIN subscriptions' \subseteq DOMAIN subscriptions
              /\ \A r \in DOMAIN subscriptions \ {lastCmd'.arg} :
                    r \in DOMAIN subscriptions' /\ subscriptions'[r] = subscriptions[r]

C16_Unsubscribe == [][C16_Step]_vars

\* An unsubscribe by symbol sent two requests, both successfully, for two
\* request ids; the one subscription left is of the other symbol.
C16_Witness ==
    /\ lastCmd.cmd = "unsubscribe"
    /\ lastCmd.kind = "bySymbol"
    /\ Cardinality({ m.reqId : m \in lastCmd.sends }) = 2
    /\ \A m \in lastCmd.sends : m.ok
    /\ Cardinality(DOMAIN subscriptions) = 1
    /\ \A r \in DOMAIN subscriptions : subscriptions[r].Symbol # lastCmd.arg

\* C20: the unsubscribe command calls unsubscribe-by-request-id exactly
\* when its first argument starts with "md_" (with that argument) or is the
\* flag --reqid followed by a word (with that word); otherwise it calls
\* unsubscribe-by-symbol with the first argument upper-cased.
C20_UnsubscribeDispatch ==
    (lastCmd.cmd = "unsubscribe" /\ Len(lastCmd.parts) >= 2) =>
        LET first == lastCmd.parts[2]
            flagged == first = WordReqidFlag /\ Len(lastCmd.parts) >= 3
            asId == flagged \/ HasPrefix(first, PrefixMd)
        IN  /\ lastCmd.kind = "byReqId" <=> asId
            /\ lastCmd.kind = "bySymbol" <=> ~asId
            /\ flagged => lastCmd.arg = lastCmd.parts[3]
            /\ (asId /\ ~flagged) => lastCmd.arg = first
            /\ ~asId => lastCmd.arg = ToUpper(first)

\* "unsubscribe --reqid btc": the word after the flag is taken as a request
\* id although it does not start with "md_".
C20_Witness ==
    /\ lastCmd.cmd = "unsubscribe"
    /\ Len(lastCmd.parts) = 3
    /\ lastCmd.parts[2] = WordReqidFlag
    /\ ~HasPrefix(lastCmd.parts[3], PrefixMd)
    /\ lastCmd.kind = "byReqId"
    /\ lastCmd.arg = lastCmd.parts[3]

\* The records of the buffer that the step appended: Ord counts the appends.
AppendedByStep == { i \in 1..Len(trades') : trades'[i].Ord > updateCount }

\* The symbols a caller may ask GetRecentTrades for, the one of the input
\* records included.
AskedSymbols == Symbols \cup { t.Symbol : t \in InputTrades }

\* Every buffered record is stamped for one of the streams and has
\* IsUpdate = ~IsSnapshot; GetRecentTrades(s, n) returns only records stamped
\* s, and with a limit that covers the buffer all of them.
C17_Stamped ==
    /\ \A i \in 1..Len(trades) :
          /\ [symbol |-> trades[i].Symbol, reqId |-> trades[i].MdReqId] \in Streams
          /\ trades[i].IsUpdate = ~trades[i].IsSnapshot
    /\ \A s \in AskedSymbols, n \in 0..(MaxCap + 1) :
          LET got == GetRecentTrades(trades, s, n)
          IN  /\ \A k \in 1..Len(got) : got[k].Symbol = s
              /\ n >= Len(trades) =>
                    \A i \in 1..Len(trades) :
                        (\E k \in 1..Len(got) : got[k] = trades[i]) <=> trades[i].Symbol = s

\* A step of AddTrades(symbol, batch, isSnapshot, mdReqId): the records it
\* appended carry symbol and mdReqId, and one snapshot flag, which is the
\* flag the call latched into the subscription; the records appended
\* before keep their stamps; GetRecentTrades returns a record of the batch
\* exactly for the symbol of the call.
C17_Step ==
    (lastOp'.op = "AddTrades" /\ updateCount' > updateCount /\ ~panicked') =>
        LET r == lastOp'.reqId
        IN  /\ AppendedByStep # {}
            /\ \A i \in AppendedByStep :
                  /\ trades'[i].Symbol = lastOp'.symbol
                  /\ trades'[i].MdReqId = r
                  /\ trades'[i].IsUpdate = ~trades'[i].IsSnapshot
                  /\ \A j \in AppendedByStep : trades'[j].IsSnapshot = trades'[i].IsSnapshot
                  /\ (r \in DOMAIN subscriptions /\ ~subscriptions[r].SnapshotReceived) =>
                        trades'[i].IsSnapshot = subscriptions'[r].SnapshotReceived
                  /\ \A s \in AskedSymbols :
                        (\E k \in 1..Len(GetRecentTrades(trades', s, Len(trades'))) :
                            GetRecentTrades(trades', s, Len(trades'))[k] = trades'[i])
                        <=> s = lastOp'.symbol
            /\ \A i \in 1..Len(trades') \ AppendedByStep :
                  \E j \in 1..Len(trades) : trades[j] = trades'[i]

\* C17: every record in the history buffer carries the symbol, request id
\* and snapshot flag of the AddTrades call that appended it, whatever the
\* record held on input, and has IsUpdate = not IsSnapshot; GetRecentTrades(s, n)
\* returns records of a batch exactly when the batch was appended under s.
C17_StampedByCall == []C17_Stamped /\ [][C17_Step]_vars

\* Two calls for different symbols, one with the snapshot flag and one
\* without, from input records that held another symbol, another request id
\* and both flags set; GetRecentTrades separates the two.
C17_Witness ==
    /\ lastOp.op = "AddTrades"
    /\ Len(trades) = 2
    /\ trades[1].Symbol = "BTC-USD" /\ trades[1].MdReqId = "r1"
    /\ trades[1].IsSnapshot /\ ~trades[1].IsUpdate
    /\ trades[2].Symbol = "ETH-USD" /\ trades[2].MdReqId = "r2"
    /\ ~trades[2].IsSnapshot /\ trades[2].IsUpdate
    /\ \A t \in InputTrades : t.Symbol = "XRP-USD" /\ t.MdReqId = "stale" /\ t.IsUpdate
    /\ GetRecentTrades(trades, "BTC-USD", 2) = <<trades[1]>>
    /\ GetRecentTrades(trades, "ETH-USD", 2) = <<trades[2]>>
    /\ GetRecentTrades(trades, "XRP-USD", 2) = <<>>

\* C19: AddTrades has no failure path: for every capacity, capacity 0
\* included, and every batch the call completes normally and leaves the
\* buffer length at most the capacity.
C19_NoFailurePath == ~panicked /\ Len(trades) <= maxSize

\* A step of an unsubscribe (the unsubscribe command, or md with the
\* unsubscribe flag): a subscription leaves the registry only if the message
\* for it was sent successfully, a subscription whose send failed stays as
\* it was, and without a matching subscription nothing is sent and the
\* registry stays as it was.
C28_Step ==
    (/\ lastCmd'.subType = "2"
     /\ lastCmd'.kind \in {"byReqId", "bySymbol"}
     /\ (lastCmd' # lastCmd \/ subscriptions' # subscriptions)) =>
        LET matching == IF lastCmd'.kind = "byReqId"
                        THEN DOMAIN subscriptions \cap {lastCmd'.arg}
                        ELSE { q \in DOMAIN subscriptions :
                                 subscriptions[q].Symbol = lastCmd'.arg }
        IN  /\ \A r \in DOMAIN subscriptions \ DOMAIN subscriptions' :
                  \E m \in lastCmd'.sends : m.reqId = r /\ m.ok /\ m.subType = "2"
            /\ \A m \in lastCmd'.sends :
                  ~m.ok => /\ m.reqId \in DOMAIN subscriptions'
                           /\ subscriptions'[m.reqId] = subscriptions[m.reqId]
            /\ DOMAIN subscriptions' \subseteq DOMAIN subscriptions
            /\ \A r \in DOMAIN subscriptions' : subscriptions'[r] = subscriptions[r]
            /\ matching = {} => (lastCmd'.sends = {} /\ subscriptions' = subscriptions)

\* C28: an unsubscribe removes a subscription from the registry only after
\* the unsubscribe message for it was sent successfully; when the send fails
\* the subscription stays registered, and when no subscription matches the
\* symbol or request id no message is sent and the registry is unchanged.
C28_RemoveOnlyAfterSend == [][C28_Step]_vars

\* An unsubscribe by request id whose send failed: the message was handed
\* over, the subscription is still registered.
C28_Witness ==
    /\ lastCmd.cmd = "unsubscribe"
    /\ lastCmd.kind = "byReqId"
    /\ \E m \in lastCmd.sends : m.reqId = lastCmd.arg /\ ~m.ok
    /\ lastCmd.arg \in DOMAIN subscriptions
    /\ subscriptions[lastCmd.arg].Active

\* The records at the end of the buffer are the records of the batch, in
\* order, as many as the capacity allows, stamped for the message.
EndsWith(buf, batch, cap) ==
    LET n == Len(batch)
        k == Min(n, cap)
    IN  /\ Len(buf) >= k
        /\ \A i \in 1..k :
              [buf[Len(buf) - k + i] EXCEPT !.Ord = 0] = batch[n - k + i]

\* A step of FromApp for a data message whose request id was removed from
\* the registry: the records are extracted and appended, and the registry
\* stays as it was.
C26_Step ==
    (/\ xpc = "idle" /\ xpc' = "stored"
     /\ msg'.mdReqId \in removed
     /\ msg'.mdReqId \notin DOMAIN subscriptions) =>
        /\ Len(extracted') = Cardinality({ i \in 1..Len(msg'.fields) :
                                              msg'.fields[i].tag = <<"2", "6", "9">> })
        /\ Len(extracted') > 0
        /\ \A k \in 1..Len(extracted') : extracted'[k].MdReqId = msg'.mdReqId
        /\ EndsWith(trades', extracted', maxSize)
        /\ updateCount' = updateCount + Len(extracted')
        /\ subscriptions' = subscriptions

\* C26: after a subscription has been removed from the registry (by
\* unsubscribe or by reject), a later inbound data message tagged with its
\* request id is still extracted and appended to the history buffer, and it
\* neither re-creates the subscription nor changes any other subscription.
C26_DataAfterRemoval == [][C26_Step]_vars

\* The records of a message for a removed request id are at the end of the
\* buffer while another subscription is registered and has counted nothing.
C26_Witness ==
    /\ xpc = "stored"
    /\ msg.mdReqId \in removed
    /\ msg.mdReqId \notin DOMAIN subscriptions
    /\ Len(extracted) = 2
    /\ EndsWith(trades, extracted, maxSize)
    /\ \E q \in DOMAIN subscriptions : subscriptions[q].TotalUpdates = 0

\* A step of FromApp for a reject.
RejectStep == inb'.kind = "reject" /\ (inb.kind # "reject" \/ inb.rejected # inb'.rejected)

C27_Step ==
    RejectStep =>
        LET r == inb'.rejected
        IN  /\ r \notin DOMAIN subscriptions'
            /\ DOMAIN subscriptions' = DOMAIN subscriptions \ {r}
            /\ \A q \in DOMAIN subscriptions' : subscriptions'[q] = subscriptions[q]
            /\ trades' = trades
            /\ updateCount' = updateCount
            /\ r \notin DOMAIN subscriptions => subscriptions' = subscriptions

\* C27: when a Market Data Request Reject carrying request id r has been
\* handled, no subscription with id r is registered; the subscriptions with
\* other request ids and the history buffer are unchanged, and a reject for
\* an unregistered id changes nothing.
C27_RejectRemoves ==
    [](inb.kind = "reject" => inb.rejected \notin DOMAIN subscriptions)
    /\ [][C27_Step]_vars

\* A reject was handled for a subscription that had counted records: it is
\* gone, the other subscription and the buffer are still there.
C27_Witness ==
    /\ inb.kind = "reject"
    /\ inb.rejected \in removed
    /\ inb.rejected \notin DOMAIN subscriptions
    /\ Cardinality(DOMAIN subscriptions) = 1
    /\ \E i \in 1..Len(trades) : trades[i].MdReqId = inb.rejected

\* The accepted Subscribe requests are registered unless they were removed.
C29_Registered ==
    \A w \in wire : w.subType = "1" =>
        (w.reqId \in DOMAIN subscriptions \/ w.reqId \in removed)

\* A step of FromApp for a data message answering an accepted Subscribe
\* request that was not removed: its records are counted.
C29_Step ==
    (/\ xpc = "idle" /\ xpc' = "stored"
     /\ \E w \in wire : w.reqId = msg'.mdReqId /\ w.subType = "1"
     /\ msg'.mdReqId \notin removed) =>
        LET r == msg'.mdReqId
        IN  /\ r \in DOMAIN subscriptions
            /\ r \in DOMAIN subscriptions'
            /\ Len(extracted') > 0
            /\ subscriptions'[r].TotalUpdates
                  = subscriptions[r].TotalUpdates + Len(extracted')

\* C29: a Subscribe request is registered under its request id before it
\* is handed to the transport, so that in every interleaving of the console
\* and the inbound messages a data message with that request id arriving
\* after the send is counted in TotalUpdates, unless the subscription was
\* removed in between.
C29_RegisteredBeforeSend == []C29_Registered /\ [][C29_Step]_vars

\* A data message was counted for the first request while the second
\* request is registered and not yet handed to the transport.
C29_Witness ==
    /\ xpc = "stored"
    /\ pending # NoReq
    /\ pending.subType = "1"
    /\ pending.reqId \in DOMAIN subscriptions
    /\ msg.mdReqId \in DOMAIN subscriptions
    /\ msg.mdReqId # pending.reqId
    /\ subscriptions[msg.mdReqId].TotalUpdates = Len(extracted)
    /\ Len(extracted) = 2

\* The steps of FromApp for a data message: AddTrades leaves the database
\* as it was; storeTradesToDatabase leaves the store as it was, and the
\* database too unless it commits.
C30_Step ==
    /\ (xpc = "idle" /\ xpc' = "stored") =>
          /\ db' = db
          /\ EndsWith(trades', extracted', maxSize)
          /\ updateCount' = updateCount + Len(extracted')
          /\ msg'.mdReqId \in DOMAIN subscriptions =>
                subscriptions'[msg'.mdReqId].TotalUpdates
                  = subscriptions[msg'.mdReqId].TotalUpdates + Len(extracted')
    /\ (xpc = "stored" /\ xpc' = "idle") =>
          /\ trades' = trades
          /\ subscriptions' = subscriptions
          /\ updateCount' = updateCount
          /\ inb'.ret = "nil"
          /\ inb'.outcome # "committed" => db' = db
          /\ ~hasDb => inb'.outcome = "absent"

\* C30: handling an inbound data message updates the store (buffer and
\* subscription counters) before persistence is attempted; a persistence
\* failure or an absent database leaves that update in place, and FromApp
\* returns no reject.
C30_MemoryBeforePersistence ==
    [](/\ inb.ret \in {"none", "nil"}
       /\ xpc = "stored" =>
             /\ EndsWith(trades, extracted, maxSize)
             /\ \A i \in 1..Len(db) : db[i].msgNo < inb.msgs)
    /\ [][C30_Step]_vars

\* FromApp has returned for a message whose insert failed: the records are
\* in the buffer and counted, the database is empty.
C30_Witness ==
    /\ xpc = "idle"
    /\ hasDb
    /\ inb.kind = "data"
    /\ inb.outcome = "insertFailed"
    /\ inb.ret = "nil"
    /\ db = <<>>
    /\ Len(trades) = 2
    /\ \E r \in DOMAIN subscriptions : subscriptions[r].TotalUpdates = 2

\* ------------------------------------------------------------------------
\* Properties of the extraction
\* ------------------------------------------------------------------------

\* The entries of a message read field by field: an entry starts at every
\* field whose tag is 269 and runs up to the next such field.
KindTag == <<"2", "6", "9">>
PriceTag == <<"2", "7", "0">>
SizeTag == <<"2", "7", "1">>
TimeTag == <<"2", "7", "3">>
PositionTag == <<"2", "9", "0">>
AggressorTag == <<"2", "4", "4", "6">>
EntryTags == { KindTag, PriceTag, SizeTag, TimeTag, PositionTag, AggressorTag }

KindIdx(fs) == { i \in 1..Len(fs) : fs[i].tag = KindTag }
NumEntries(fs) == Cardinality(KindIdx(fs))
EntryStartIdx(fs, k) ==
    CHOOSE i \in KindIdx(fs) : Cardinality({ j \in KindIdx(fs) : j <= i }) = k
EntryFields(fs, k) ==
    SubSeq(fs, EntryStartIdx(fs, k),
           IF k < NumEntries(fs) THEN EntryStartIdx(fs, k + 1) - 1 ELSE Len(fs))
HasField(entry, tag) == \E i \in 1..Len(entry) : entry[i].tag = tag
FieldVal(entry, tag) ==
    IF HasField(entry, tag)
    THEN entry[CHOOSE i \in 1..Len(entry) :
                  /\ entry[i].tag = tag
                  /\ \A j \in 1..(i - 1) : entry[j].tag # tag].val
    ELSE <<>>

\* A message of well-formed entries: every body field after the declared
\* count belongs to an entry, is one of the entry fields, and occurs at most
\* once in its entry.
WellFormed(m) ==
    /\ m.fields # <<>> => m.fields[1].tag = KindTag
    /\ \A i \in 1..Len(m.fields) : m.fields[i].tag \in EntryTags
    /\ \A k \in 1..NumEntries(m.fields) :
          LET e == EntryFields(m.fields, k)
          IN  \A i, j \in 1..Len(e) : i # j => e[i].tag # e[j].tag

CountDeclared(m) == m.noMdEntries # <<>> /\ m.noMdEntries # <<"0">>

IsBidOrOffer(kind) == kind = <<"0">> \/ kind = <<"1">>

\* C4: for a message of N well-formed entries with a non-zero declared count
\* the extraction returns N records, the i-th with the kind, price, size,
\* time and explicit position of the i-th entry, and the derived positions of
\* the Bid/Offer records without a position field are pairwise distinct.
C4_OneRecordPerEntry ==
    (xpc = "extracted" /\ WellFormed(msg) /\ CountDeclared(msg)) =>
        LET n == NumEntries(msg.fields)
        IN  /\ Len(extracted) = n
            /\ \A k \in 1..n :
                  LET e == EntryFields(msg.fields, k)
                  IN  /\ extracted[k].EntryType = e[1].val
                      /\ extracted[k].Price = FieldVal(e, PriceTag)
                      /\ extracted[k].Size = FieldVal(e, SizeTag)
                      /\ extracted[k].Time = FieldVal(e, TimeTag)
                      /\ HasField(e, PositionTag) =>
                            extracted[k].Position = FieldVal(e, PositionTag)
            /\ \A i, j \in 1..n :
                  LET ei == EntryFields(msg.fields, i)
                      ej == EntryFields(msg.fields, j)
                  IN  (/\ i # j
                       /\ IsBidOrOffer(ei[1].val) /\ ~HasField(ei, PositionTag)
                       /\ IsBidOrOffer(ej[1].val) /\ ~HasField(ej, PositionTag))
                      => extracted[i].Position # extracted[j].Position

\* A bid with a price followed by an offer, neither with a position field:
\* two records, positions "1" and "2", the price in the first only.
C4_Witness ==
    /\ xpc = "extracted"
    /\ WellFormed(msg)
    /\ CountDeclared(msg)
    /\ NumEntries(msg.fields) = 2
    /\ Len(msg.fields) = 3
    /\ Len(extracted) = 2
    /\ extracted[1].EntryType = <<"0">> /\ extracted[1].Position = <<"1">>
    /\ extracted[1].Price = <<"5">>
    /\ extracted[2].EntryType = <<"1">> /\ extracted[2].Position = <<"2">>
    /\ extracted[2].Price = <<>>

\* C5: with the declared count absent or "0" the extraction returns no
\* record and does not run the boundary scan.
C5_ZeroCountShortCircuit ==
    (xpc = "extracted" /\ (msg.noMdEntries = <<>> \/ msg.noMdEntries = <<"0">>)) =>
        /\ extracted = <<>>
        /\ ~scanned

\* A message declaring "0" entries whose text holds two discriminator
\* markers.
C5_Witness ==
    /\ xpc = "extracted"
    /\ msg.noMdEntries = <<"0">>
    /\ NumEntries(msg.fields) = 2
    /\ extracted = <<>>
    /\ ~scanned

\* The text from offset off up to the next field delimiter.
TokenAt(raw, off) ==
    LET ends == { j \in off..(Len(raw) - 1) : raw[j + 1] = SOH }
    IN  IF ends = {} THEN SliceFrom(raw, off)
        ELSE Slice(raw, off, CHOOSE j \in ends : \A h \in ends : j <= h)

\* C6: when the scan runs, every boundary it finds yields one record, in
\* order, and the record of an entry whose discriminator is not a known kind
\* has the discriminator token as its EntryType.
C6_NoEntryDropped ==
    (xpc = "extracted" /\ scanned) =>
        LET raw == RawText(msg)
            bounds == findEntryBoundaries(raw)
        IN  /\ Len(extracted) = Len(bounds)
            /\ \A k \in 1..Len(bounds) :
                  LET token == TokenAt(raw, bounds[k] + Len(Marker))
                  IN  token \notin KnownKinds => extracted[k].EntryType = token

\* An entry of the unknown kind "Z" between two known ones: three records,
\* the second of kind "Z".
C6_Witness ==
    /\ xpc = "extracted"
    /\ scanned
    /\ Len(extracted) = 3
    /\ extracted[1].EntryType \in KnownKinds
    /\ extracted[2].EntryType = <<"Z">>
    /\ extracted[3].EntryType \in KnownKinds

\* C7: the Aggressor of a record is "Buy" for aggressor field "1", "Sell"
\* for "2", and "Unknown" for every other value and for an absent field.
C7_AggressorNormalized ==
    (xpc = "extracted" /\ WellFormed(msg) /\ CountDeclared(msg)) =>
        \A k \in 1..Len(extracted) :
            LET a == FieldVal(EntryFields(msg.fields, k), AggressorTag)
            IN  extracted[k].Aggressor =
                    (IF a = <<"1">> THEN <<"B", "u", "y">>
                     ELSE IF a = <<"2">> THEN <<"S", "e", "l", "l">>
                     ELSE <<"U", "n", "k", "n", "o", "w", "n">>)

\* A message without discriminator markers outside the kind fields: the
\* records found by the scan are the entries read field by field.
Aligned(m) == Len(findEntryBoundaries(RawText(m))) = NumEntries(m.fields)

\* C8: the Position of a record is the value of the position field of its
\* entry when the entry has one; without one it is the ordinal index plus 1
\* for a Bid or Offer and empty for every other kind.
C8_PositionDefaulting ==
    (xpc = "extracted" /\ Aligned(msg) /\ CountDeclared(msg)) =>
        \A k \in 1..Len(extracted) :
            LET e == EntryFields(msg.fields, k)
            IN  extracted[k].Position =
                    (IF HasField(e, PositionTag) THEN FieldVal(e, PositionTag)
                     ELSE IF IsBidOrOffer(e[1].val) THEN Sprintf_d(k)
                     ELSE <<>>)
\* The offsets at which the marker occurs in a text.
MarkerOffsets(raw) ==
    { i \in 0..(Len(raw) - Len(Marker)) : Slice(raw, i, i + Len(Marker)) = Marker }

\* C21: findEntryBoundaries returns the offset of every occurrence of the
\* marker "269=" in the message text and nothing else, in strictly ascending
\* order, each offset being the index at which the marker starts, and the
\* empty list when the marker does not occur.
C21_Step ==
    (xpc = "received" /\ xpc' = "extracted" /\ scanned') =>
        LET raw == RawText(msg)
            b == findEntryBoundaries(raw)
        IN  /\ { b[k] : k \in 1..Len(b) } = MarkerOffsets(raw)
            /\ \A k \in 1..(Len(b) - 1) : b[k] < b[k + 1]
            /\ \A k \in 1..Len(b) : Slice(raw, b[k], b[k] + Len(Marker)) = Marker
            /\ MarkerOffsets(raw) = {} => b = <<>>
            /\ Len(extracted') = Len(b)

C21_BoundariesAreMarkerOffsets == [][C21_Step]_vars

\* A scanned message whose text holds the marker three times: at the start
\* of a kind field, inside the tag 1269 and inside the value of a text
\* field.
C21_Witness ==
    /\ xpc = "extracted"
    /\ scanned
    /\ Cardinality(MarkerOffsets(RawText(msg))) = 3
    /\ NumEntries(msg.fields) = 1
    /\ \E i \in 1..Len(msg.fields) : msg.fields[i].tag = <<"1", "2", "6", "9">>
    /\ \E i \in 1..Len(msg.fields) : msg.fields[i].tag = <<"5", "8">>
    /\ Len(findEntryBoundaries(RawText(msg))) = 3
    /\ Len(extracted) = 3

\* The spans handed to parseTradeFromSegment, as offsets [lo, hi).
EntrySpans(raw) ==
    LET b == findEntryBoundaries(raw)
    IN  [ k \in 1..Len(b) |-> [lo |-> b[k], hi |-> getEntryEndPos(b, k - 1, Len(raw))] ]

\* C22: the entry spans partition the message text from the first boundary
\* to the message end: span i runs from boundary i to boundary i+1, the last
\* one to the end of the message, spans do not overlap, and each span
\* contains exactly one marker, at its start.
C22_Step ==
    (xpc = "received" /\ xpc' = "extracted" /\ scanned') =>
        LET raw == RawText(msg)
            b == findEntryBoundaries(raw)
            sp == EntrySpans(raw)
            n == Len(sp)
        IN  /\ n = Len(b)
            /\ \A k \in 1..n : sp[k].lo = b[k]
            /\ \A k \in 1..(n - 1) : sp[k].hi = b[k + 1]
            /\ n >= 1 => sp[n].hi = Len(raw)
            /\ \A k \in 1..n : sp[k].lo < sp[k].hi
            /\ \A i \in 0..(Len(raw) - 1) :
                  Cardinality({ k \in 1..n : sp[k].lo <= i /\ i < sp[k].hi })
                      = (IF n >= 1 /\ b[1] <= i THEN 1 ELSE 0)
            /\ \A k \in 1..n :
                  MarkerOffsets(Slice(raw, sp[k].lo, sp[k].hi)) = {0}
            /\ \A k \in 1..n :
                  extracted'[k] = parseTradeFromSegment(Slice(raw, sp[k].lo, sp[k].hi),
                                      msg.symbol, msg.mdReqId, msg.msgType = "W",
                                      msg.seqNum, k - 1)

C22_SpansPartition == [][C22_Step]_vars

\* Three entries: the first span ends where the second starts, the second
\* where the third starts, the third at the end of the message.
C22_Witness ==
    /\ xpc = "extracted"
    /\ scanned
    /\ Len(extracted) = 3
    /\ LET sp == EntrySpans(RawText(msg))
       IN  /\ Len(sp) = 3
           /\ sp[1].hi = sp[2].lo
           /\ sp[2].hi = sp[3].lo
           /\ sp[3].hi = Len(RawText(msg))
           /\ sp[1].lo > 0

\* C24: all records extracted from one message carry the SeqNum, MdReqId
\* and Symbol of the message and the same snapshot flag, which is true
\* exactly when the message type is W (Snapshot/Full Refresh) and false when
\* it is X (Incremental Refresh).
C24_MessageLevelFields ==
    xpc = "extracted" =>
        \A k \in 1..Len(extracted) :
            /\ extracted[k].SeqNum = msg.seqNum
            /\ extracted[k].MdReqId = msg.mdReqId
            /\ extracted[k].Symbol = msg.symbol
            /\ extracted[k].IsSnapshot = (msg.msgType = "W")
            /\ msg.msgType = "X" => ~extracted[k].IsSnapshot
            /\ \A j \in 1..Len(extracted) :
                  extracted[j].IsSnapshot = extracted[k].IsSnapshot

\* An incremental refresh of two entries for ETH-USD: two records, neither
\* flagged as snapshot, both with the sequence number of the message.
C24_Witness ==
    /\ xpc = "extracted"
    /\ msg.msgType = "X"
    /\ msg.symbol = "ETH-USD"
    /\ Len(extracted) = 2
    /\ \A k \in 1..2 :
          /\ ~extracted[k].IsSnapshot
          /\ extracted[k].SeqNum = "7"
          /\ extracted[k].Symbol = "ETH-USD"

\* C25: with a declared count that is present and not "0" the extraction
\* returns one record per boundary found, also when that is fewer than
\* declared, and the declared count does not bound or change the result.
C25_Step ==
    (xpc = "received" /\ xpc' = "extracted" /\ CountDeclared(msg)) =>
        LET b == findEntryBoundaries(RawText(msg))
            other == [msg EXCEPT !.noMdEntries = <<"9">>]
        IN  /\ scanned'
            /\ Len(extracted') = Len(b)
            /\ extracted' = extractTradesImproved(other, msg.symbol, msg.mdReqId,
                                                 msg.msgType = "W", msg.seqNum).trades

C25_DeclaredCountUnused == [][C25_Step]_vars

\* A message declaring two entries that holds one: one record, no failure.
C25_Witness ==
    /\ xpc = "extracted"
    /\ msg.noMdEntries = <<"2">>
    /\ Len(findEntryBoundaries(RawText(msg))) = 1
    /\ Len(extracted) = 1
\* The offsets at which a tag prefix occurs in a span.
PrefixOffsets(seg, prefix) ==
    { i \in 0..(Len(seg) - Len(prefix)) : Slice(seg, i, i + Len(prefix)) = prefix }

\* C23: extractSingleFieldValue(span, tagPrefix) returns the text between
\* the first occurrence of tagPrefix in the span and the next field
\* delimiter, or up to the end of the span when no delimiter follows, the
\* empty text when tagPrefix does not occur, and it never fails.
C23_FieldValue ==
    fcall.pc # "called" =>
        LET occ == PrefixOffsets(fcall.segment, fcall.tagPrefix)
        IN  /\ fcall.pc = "returned"
            /\ occ = {} => fcall.value = <<>>
            /\ occ # {} =>
                  LET first == CHOOSE i \in occ : \A j \in occ : i <= j
                      from == first + Len(fcall.tagPrefix)
                      delims == { j \in from..(Len(fcall.segment) - 1) :
                                    fcall.segment[j + 1] = SOH }
                  IN  /\ delims = {} => fcall.value = SliceFrom(fcall.segment, from)
                      /\ delims # {} =>
                            fcall.value = Slice(fcall.segment, from,
                                                CHOOSE j \in delims : \A h \in delims : j <= h)

\* The span "269=2|270=5" asked for "270=": the value "5" runs to the end
\* of the span, no delimiter follows.
C23_Witness ==
    /\ fcall.pc = "returned"
    /\ fcall.segment = <<"2", "6", "9", "=", "2", SOH, "2", "7", "0", "=", "5">>
    /\ fcall.tagPrefix = <<"2", "7", "0", "=">>
    /\ fcall.value = <<"5">>

\* The offsets at which a field of tag 269 starts in a text: offset 0 or the
\* offset after a delimiter, followed by the marker.
KindFieldOffsets(raw) ==
    { i \in MarkerOffsets(raw) : i = 0 \/ raw[i] = SOH }

\* C35: when the scan runs, every boundary it reports is the start of a
\* field whose tag is exactly 269, and the extraction returns one record per
\* such field: the characters "269=" inside a longer tag or inside a field
\* value start no entry and produce no extra record.
C35_BoundaryOnlyAtExactTag ==
    (xpc = "extracted" /\ scanned) =>
        LET raw == RawText(msg)
            b == findEntryBoundaries(raw)
        IN  /\ \A k \in 1..Len(b) : b[k] \in KindFieldOffsets(raw)
            /\ Len(extracted) = NumEntries(msg.fields)

\* C36: every field of a record is read from the field of its entry whose
\* tag is exactly the requested tag, so a Bid or Offer entry without a field
\* 290 gets the ordinal position whatever other fields it carries.
C36_ExactTagOnly ==
    (xpc = "extracted" /\ Aligned(msg) /\ CountDeclared(msg)) =>
        \A k \in 1..Len(extracted) :
            LET e == EntryFields(msg.fields, k)
            IN  /\ extracted[k].Price = FieldVal(e, PriceTag)
                /\ extracted[k].Size = FieldVal(e, SizeTag)
                /\ extracted[k].Time = FieldVal(e, TimeTag)
                /\ extracted[k].Aggressor = AggressorOf(FieldVal(e, AggressorTag))
                /\ extracted[k].Position =
                      PositionOf(FieldVal(e, PositionTag), e[1].val, k - 1)
                /\ (IsBidOrOffer(e[1].val) /\ ~HasField(e, PositionTag)) =>
                      extracted[k].Position = Sprintf_d(k)

\* ------------------------------------------------------------------------
\* Properties of the requests
\* ------------------------------------------------------------------------

\* A step of the md command that issued a request whose send failed.
FailedRequestStep ==
    /\ nextId' = nextId + 1
    /\ lastCmd'.cmd = "md" /\ lastCmd'.kind = "request"
    /\ \E s \in lastCmd'.sends : ~s.ok

\* C34: a failed send of a market data request removes no subscription but
\* the one registered for that request: every subscription registered
\* before the command is still registered after it, unchanged, and after a
\* failed snapshot request the registry is what it was.
C34_Step ==
    FailedRequestStep =>
        /\ \A r \in DOMAIN subscriptions :
              r \in DOMAIN subscriptions' /\ subscriptions'[r] = subscriptions[r]
        /\ lastCmd'.subType = "0" => subscriptions' = subscriptions

RECURSIVE GroupTotal(_, _)
GroupTotal(groups, syms) ==
    IF syms = {} THEN 0
    ELSE LET sym == CHOOSE x \in syms : TRUE
         IN  Cardinality(groups[sym]) + GroupTotal(groups, syms \ {sym})

\* C33: the result of GetSubscriptionsBySymbol has one group for every
\* symbol of a registered subscription and no other, every element of a
\* group has the symbol of the group, every registered subscription is an
\* element of exactly one group, and the groups hold together as many
\* elements as GetSubscriptionStatus returns in the state of the call.
C33_Step ==
    (ret'.kind = "bySymbol" /\ HGetSubscriptionsBySymbol) =>
        LET g == ret'.groups
            status == StatusResult(KeepCells(heap, subPtr, NoRet), subPtr)
        IN  /\ DOMAIN g = { subscriptions[r].Symbol : r \in DOMAIN subscriptions }
            /\ \A sym \in DOMAIN g :
                  /\ g[sym] # {}
                  /\ \A a \in g[sym] : heap'[a].Symbol = sym
            /\ \A r \in DOMAIN subscriptions :
                  Cardinality({ p \in { <<sym, a>> : sym \in DOMAIN g, a \in RetAddrs(ret') } :
                                  /\ p[2] \in g[p[1]]
                                  /\ heap'[p[2]] = subscriptions[r] }) = 1
            /\ GroupTotal(g, DOMAIN g) = Cardinality(DOMAIN status.ptrs)
            /\ GroupTotal(g, DOMAIN g) = Cardinality(DOMAIN subscriptions)

C33_GroupsPartitionRegistry == [][C33_Step]_vars

\* A caller holds the groups of two subscriptions registered for the same
\* symbol: one group, of two elements.
C33_Witness ==
    /\ ret.kind = "bySymbol"
    /\ DOMAIN ret.groups = {"BTC-USD"}
    /\ Cardinality(ret.groups["BTC-USD"]) = 2
    /\ Cardinality(DOMAIN subscriptions) = 2

\* ------------------------------------------------------------------------
\* Properties of concurrent calls
\* ------------------------------------------------------------------------

\* While a reader holds the lock no AddTrades call is under way: every
\* record of every batch handed in so far has been appended.
C37_NoPartialBatch ==
    mu.readers # {} =>
        /\ \A w \in Writers : wpc[w] = "idle"
        /\ hist.appended = hist.submitted

\* When an AddTrades call returns, the records at the end of the buffer are
\* the records of its batch, stamped, in batch order, as many as the
\* capacity allows, and they are the last appends of all, one after the
\* other.
C37_Step ==
    \A w \in Writers :
        (wpc[w] = "loop" /\ wpc'[w] = "idle") =>
            LET c == wcall[w]
                n == Len(c.batch)
                k == Min(n, maxSize)
            IN  /\ Len(trades) >= k
                /\ \A i \in 1..k :
                      trades[Len(trades) - k + i] =
                          StampTrade(c.batch[n - k + i], c.symbol, c.isSnapshot,
                                     c.mdReqId, updateCount - k + i)

\* C37: the records of one AddTrades call are stored next to each other in
\* batch order whatever other calls run concurrently, and a reader never
\* observes a batch of which only a part has been appended.
C37_BatchAtomic == []C37_NoPartialBatch /\ [][C37_Step]_vars

\* A reader holds the lock and has read the two records of the batch of a
\* call that returned after the call of another writer: the two records,
\* the second and third appends, fill the buffer.
C37_Witness ==
    /\ lastOp.op = "AddTrades" /\ lastOp.n = 2
    /\ updateCount = 3
    /\ Len(trades) = 2
    /\ trades[1].MdReqId = lastOp.reqId /\ trades[1].Ord = 2
    /\ trades[2].MdReqId = lastOp.reqId /\ trades[2].Ord = 3
    /\ \E g \in Readers :
          /\ g \in mu.readers
          /\ rpc[g] = "read"
          /\ rres[g] = trades

\* ------------------------------------------------------------------------
\* Properties of the persistence of unrecognized kinds
\* ------------------------------------------------------------------------

\* The indexes of the records of a batch whose kind is not a recognized one.
UnknownIdx(batch) == { i \in 1..Len(batch) : batch[i].EntryType \notin KnownKinds }

\* Once the records of a message were handed over, the buffer ends with
\* them, those of an unrecognized kind included; no insert is attempted for
\* a record of an unrecognized kind; and after the commit the database
\* holds, beyond what it held, one row for every record of a recognized
\* kind of the message, in order, and no row for any other record.
C38_KeptNotPersisted ==
    ppc # "idle" =>
        LET b == pcall.batch
            n == Len(b)
            k == Min(n, maxSize)
            added == SubSeq(db, Len(plog.before) + 1, Len(db))
            known == { i \in 1..n : i \notin UnknownIdx(b) }
        IN  /\ Len(trades) >= k
            /\ \A i \in 1..k :
                  trades[Len(trades) - k + i].EntryType = b[n - k + i].EntryType
            /\ \A j \in 1..Len(plog.attempted) : plog.attempted[j] \notin UnknownIdx(b)
            /\ (ppc = "done" /\ plog.outcome = "committed") =>
                  /\ Len(added) = Cardinality(known)
                  /\ \A i \in known :
                        \E j \in 1..Len(added) : added[j] = RowOf(b[i], i, plog.msgs)
                  /\ \A j \in 1..Len(added) : added[j].idx \in known
                  /\ \A i, j \in 1..Len(added) : i < j => added[i].idx < added[j].idx

\* The iteration of the loop over a record of an unrecognized kind: the
\* loop goes on with the next record, the rows of the transaction, the
\* database and the buffer are as they were.
C38_Step ==
    (/\ ppc = "begun"
     /\ pcall.i <= Len(pcall.batch)
     /\ pcall.i \in UnknownIdx(pcall.batch)
     /\ <<ppc, pcall, tx, plog>>' # <<ppc, pcall, tx, plog>>) =>
        /\ ppc' = "begun"
        /\ pcall' = [pcall EXCEPT !.i = @ + 1]
        /\ tx' = tx
        /\ plog' = plog
        /\ db' = db
        /\ trades' = trades

\* C38: a record of an unrecognized kind stays in the history buffer,
\* produces no row, and does not end the batch: the records of recognized
\* kinds of the same message, before and after it, are committed.
C38_UnknownKindSkipped == []C38_KeptNotPersisted /\ [][C38_Step]_vars

\* Two messages were committed.  The first held a record of an
\* unrecognized kind followed by a trade, whose row is the only row of the
\* message; the second held a trade followed by a record of an unrecognized
\* kind, which is the last record of the buffer.
C38_Witness ==
    /\ ppc = "done"
    /\ plog.outcome = "committed"
    /\ plog.msgs = 2
    /\ Len(db) = 2
    /\ db[1].msgNo = 1 /\ db[1].idx = 2
    /\ db[2].msgNo = 2 /\ db[2].idx = 1
    /\ Len(pcall.batch) = 2
    /\ pcall.batch[2].EntryType = <<"Z">>
    /\ Len(trades) = 2
    /\ trades[2].EntryType = <<"Z">>

\* ------------------------------------------------------------------------
\* Properties of the md command and of the request message
\* ------------------------------------------------------------------------

\* The entry types of a request message, in the order of its group.
EntryTypesOf(m) == [i \in 1..Len(m.groups[267]) |-> m.groups[267][i][269]]

\* C32: an md command without entry-type flag requests bids and offers when
\* a depth was given with --depth and trades otherwise; an md command
\* without subscription flag sends nothing and registers nothing.
C32_Step ==
    lastCmd'.cmd = "md" =>
        LET flags == parseMdFlags(lastCmd'.parts)
        IN  /\ (lastCmd'.kind = "request" /\ flags.entryTypes = <<>>) =>
                  \A s \in lastCmd'.sends :
                      EntryTypesOf(s.msg) = IF flags.marketDepth # "" THEN <<"0", "1">>
                                            ELSE <<"2">>
            /\ flags.subscriptionType = "" =>
                  /\ lastCmd'.sends = {}
                  /\ subscriptions' = subscriptions
                  /\ nextId' = nextId

C32_MdDefaults == [][C32_Step]_vars

\* C31: the message BuildMarketDataRequest returns carries the request id,
\* the subscription type and the depth it was given, one entry-type element
\* per entry type and one symbol element per symbol, in the order given,
\* and the update type (tag 265, incremental) exactly when the subscription
\* type is Subscribe.
C31_RequestMessage ==
    pending.pc = 1 =>
        /\ Cardinality(wire) = 1
        /\ \A m \in wire :
              /\ m.header[35] = "V"
              /\ m.body[262] = pending.mdReqId
              /\ m.body[263] = pending.subscriptionRequestType
              /\ m.body[264] = pending.marketDepth
              /\ EntryTypesOf(m) = pending.mdEntryTypes
              /\ \A i \in 1..Len(m.groups[267]) : DOMAIN m.groups[267][i] = {269}
              /\ Len(m.groups[146]) = Len(pending.symbols)
              /\ \A i \in 1..Len(pending.symbols) :
                    m.groups[146][i] = (55 :> pending.symbols[i])
              /\ 265 \in DOMAIN m.body <=> pending.subscriptionRequestType = "1"
              /\ 265 \in DOMAIN m.body => m.body[265] = "1"

\* A snapshot request for two symbols and two entry types: two elements in
\* each group, no update type.
C31_Witness ==
    /\ pending.pc = 1
    /\ pending.subscriptionRequestType = "0"
    /\ Len(pending.symbols) = 2 /\ pending.symbols[1] # pending.symbols[2]
    /\ pending.mdEntryTypes = <<"2", "0">>
    /\ \E m \in wire :
          /\ 265 \notin DOMAIN m.body
          /\ Len(m.groups[267]) = 2
          /\ Len(m.groups[146]) = 2
====
